---- MODULE Spec2Model ----
(***************************************************************************)
(* Model of pm-assistant's YouTrack server (src/youtrack.js): the Analyze  *)
(* request with its ticket-graph crawl, the comment fetcher, the chat      *)
(* correlation engine and the paginated chat fetch.                        *)
(*                                                                         *)
(* A request runs as one sequential pipeline that suspends only at its     *)
(* network awaits, so every action below is the code between two awaits:   *)
(* it consumes the response of the outstanding request and runs up to the  *)
(* next request (or to the end of the handler).                            *)
(*                                                                         *)
(* Optional values (null / undefined) are sequences of length 0 or 1.      *)
(* Record fields the crawl, the correlation and the page loop never read   *)
(* (titles, dates, people, custom fields) are left out of the records.     *)
(***************************************************************************)
EXTENDS Naturals, Sequences, FiniteSets, TLC

\* ------------------------------------------------------------------------
\* Bounds of the model
\* ------------------------------------------------------------------------
\* Spec explores the link structure of a crawl
MaxRootLinks == 2      \* linked issues declared by the root issue
MaxChildLinks == 1     \* linked issues declared by a linked issue
MaxCrawlComments == 0  \* comments per ticket
\* SpecComments explores the comments of a crawl
CMaxRootLinks == 1
CMaxChildLinks == 0
CMaxComments == 3
\* SpecCorrelate: messages of the chat dataset given to correlateChatsWithTickets
MaxMessages == 3
\* SpecPages: page requests the model follows (the code stops at maxPages)
MaxPageRequests == 12
\* SpecHistory: concurrent Analyze requests, delete requests, clock ticks
MaxRequests == 2
MaxDeletes == 1
MaxTicks == 1
\* SpecExport: lines of the text given to parseGoogleChatExport
MaxLines == 4
\* SpecAnalyze: linked issues declared by the root issue
AMaxRootLinks == 1
\* SpecStats explores the fields and comments the statistics count
SMaxRootLinks == 2
SMaxChildLinks == 0
SMaxComments == 1

\* ------------------------------------------------------------------------
\* Program constants
\* ------------------------------------------------------------------------
MAX_HISTORY == 50
maxPages == 10

\* ------------------------------------------------------------------------
\* The tracker (environment)
\* ------------------------------------------------------------------------
RootId == "R-1"
Ids == {"R-1", "A-2", "B-3"}

\* link types as the tracker describes them: name, sourceToTarget, targetToSource
LinkTypeDefs ==
  { [name |-> "Subtask", sourceToTarget |-> "parent for", targetToSource |-> "subtask of"],
    [name |-> "Depend", sourceToTarget |-> "is required for", targetToSource |-> "depends on"],
    [name |-> "Relates", sourceToTarget |-> "relates to", targetToSource |-> "relates to"] }

Directions == {"OUTWARD", "INWARD"}

SeqsUpTo(S, n) == UNION { [1..k -> S] : k \in 0..n }

\* one entry of issue.links; every entry carries one linked issue here
RawLinks ==
  { [linkType |-> t, direction |-> d, issues |-> <<x>>] :
      t \in LinkTypeDefs, d \in Directions, x \in Ids }

\* what parseIssueData reads of an issue for state, type and assignee: the
\* name of issue.state, issue.type and issue.assignee, and the value of the
\* custom fields State, Type and Assignee; "" is a field the tracker left out
NoFields ==
  [state |-> "", customState |-> "", type |-> "", customType |-> "",
   assignee |-> "", customAssignee |-> ""]

IssueFields ==
  { NoFields,
    [state |-> "", customState |-> "Open", type |-> "", customType |-> "Bug",
     assignee |-> "", customAssignee |-> "Ann"],
    [state |-> "Open", customState |-> "Done", type |-> "Task", customType |-> "Bug",
     assignee |-> "Bob", customAssignee |-> "Ann"] }

\* the issue the tracker returns for id: it is the issue that was asked for
RawIssues(id, maxLinks, fieldSets) ==
  { [idReadable |-> id, links |-> ls, fields |-> f] :
      ls \in SeqsUpTo(RawLinks, maxLinks), f \in fieldSets }

\* a comments response: comment ids are positions, any comment may be deleted
RawCommentLists(n) ==
  UNION { { [k \in 1..len |-> [id |-> k, deleted |-> del[k]]] : del \in [1..len -> BOOLEAN] }
          : len \in 0..n }

\* ------------------------------------------------------------------------
\* fetchComments: the code after the await (the response is its input)
\* ------------------------------------------------------------------------
CommentFailure == [ok |-> FALSE, data |-> <<>>]

CommentResponses(n) ==
  {CommentFailure} \cup { [ok |-> TRUE, data |-> l] : l \in RawCommentLists(n) }

MapComment(c) == [id |-> c.id]

\* mutant of fetchComments: the deleted comments are not filtered out
fetchCommentsUnfiltered(resp) ==
  IF resp.ok
  THEN [k \in 1..Len(resp.data) |-> MapComment(resp.data[k])]
  ELSE <<>>

fetchComments(resp) ==
  IF resp.ok
  THEN LET kept == SelectSeq(resp.data, LAMBDA c : ~c.deleted)
       IN  [k \in 1..Len(kept) |-> MapComment(kept[k])]
  ELSE <<>>

\* ------------------------------------------------------------------------
\* parseIssueData
\* ------------------------------------------------------------------------
RECURSIVE Concat(_)
Concat(ss) == IF ss = <<>> THEN <<>> ELSE Head(ss) \o Concat(Tail(ss))

\* the item built for one linked issue of one link, before classification
LinkItem(link, x) ==
  LET linkType == link.linkType.name
      direction == link.direction
  IN  [id |-> x,
       linkType |-> linkType,
       direction |-> direction,
       dependencyType |->
         IF linkType = "Depend"
         THEN (IF direction = "OUTWARD" THEN "Depends on" ELSE "Required for")
         ELSE "",
       relationType |->
         IF linkType \notin {"Subtask", "Depend"}
         THEN LET label == IF direction = "OUTWARD"
                           THEN link.linkType.sourceToTarget
                           ELSE link.linkType.targetToSource
              IN  IF label # "" THEN label ELSE linkType
         ELSE "",
       sourceIssue |-> ""]

\* the items of issue.links in the order the two nested forEach visit them
LinkItems(links) ==
  Concat([k \in 1..Len(links) |->
            [j \in 1..Len(links[k].issues) |-> LinkItem(links[k], links[k].issues[j])]])

parseIssueData(issue, comments) ==
  LET items == LinkItems(issue.links)
  IN  [id |-> issue.idReadable,
       type |-> IF issue.fields.type # "" THEN issue.fields.type
                ELSE IF issue.fields.customType # "" THEN issue.fields.customType
                ELSE "Issue",
       state |-> IF issue.fields.state # "" THEN issue.fields.state
                 ELSE IF issue.fields.customState # "" THEN issue.fields.customState
                 ELSE "Unknown",
       assignee |-> IF issue.fields.assignee # "" THEN issue.fields.assignee
                    ELSE IF issue.fields.customAssignee # "" THEN issue.fields.customAssignee
                    ELSE "Unassigned",
       comments |-> comments,
       children |-> SelectSeq(items,
            LAMBDA it : it.linkType = "Subtask" /\ it.direction = "OUTWARD"),
       parents |-> SelectSeq(items,
            LAMBDA it : it.linkType = "Subtask" /\ it.direction # "OUTWARD"),
       relatedItems |-> SelectSeq(items,
            LAMBDA it : it.linkType \notin {"Subtask", "Depend"}),
       dependencies |-> SelectSeq(items, LAMBDA it : it.linkType = "Depend"),
       linkTypeToParent |-> ""]

\* ------------------------------------------------------------------------
\* crawlYouTrack: the frontier and the merge of a child's dependencies
\* ------------------------------------------------------------------------
SeqIds(s) == { s[k].id : k \in 1..Len(s) }

\* mutant of allLinkedItems: the dependencies are crawled too
allLinkedItemsAndDependencies(parent) ==
  [k \in 1..Len(parent.children) |->
     [parent.children[k] EXCEPT !.linkType = "Subtask"]]
  \o
  [k \in 1..Len(parent.relatedItems) |->
     [parent.relatedItems[k] EXCEPT !.linkType =
        IF parent.relatedItems[k].relationType # ""
        THEN parent.relatedItems[k].relationType ELSE "Related"]]
  \o parent.dependencies

\* Object.assign({}, c, {linkType: ...}) over children, then over relatedItems
allLinkedItems(parent) ==
  [k \in 1..Len(parent.children) |->
     [parent.children[k] EXCEPT !.linkType = "Subtask"]]
  \o
  [k \in 1..Len(parent.relatedItems) |->
     [parent.relatedItems[k] EXCEPT !.linkType =
        IF parent.relatedItems[k].relationType # ""
        THEN parent.relatedItems[k].relationType ELSE "Related"]]

RECURSIVE DedupFrom(_, _)
DedupFrom(items, seenIds) ==
  IF items = <<>> THEN <<>>
  ELSE IF Head(items).id \in seenIds
       THEN DedupFrom(Tail(items), seenIds)
       ELSE <<Head(items)>> \o DedupFrom(Tail(items), seenIds \cup {Head(items).id})

\* mutant of uniqueLinkedItems: the linked items are not deduplicated
uniqueLinkedItemsAll(parent) == allLinkedItems(parent)

\* mutant of uniqueLinkedItems: the related items are listed before the subtasks
uniqueLinkedItemsRelatedFirst(parent) ==
  DedupFrom([k \in 1..Len(parent.relatedItems) |->
               [parent.relatedItems[k] EXCEPT !.linkType =
                  IF parent.relatedItems[k].relationType # ""
                  THEN parent.relatedItems[k].relationType ELSE "Related"]]
            \o
            [k \in 1..Len(parent.children) |->
               [parent.children[k] EXCEPT !.linkType = "Subtask"]],
            {})

uniqueLinkedItems(parent) == DedupFrom(allLinkedItems(parent), {})

\* whether the forEach over linked.dependencies pushes dep onto the graph's list
DepAccepted(deps, dep, parentId) ==
  dep.id \notin SeqIds(deps) /\ dep.id # parentId

\* The forEach over linked.dependencies.  acc.deps is result.dependencies and
\* acc.own is linked.dependencies: a pushed dep is the same object in both, so
\* its new sourceIssue shows in both.
RECURSIVE MergeDeps(_, _, _, _)
MergeDeps(acc, todo, linkedId, parentId) ==
  IF todo = <<>> THEN acc
  ELSE LET dep == Head(todo)
       IN  IF DepAccepted(acc.deps, dep, parentId)
           THEN LET d == [dep EXCEPT !.sourceIssue = linkedId]
                IN  MergeDeps([deps |-> Append(acc.deps, d), own |-> Append(acc.own, d)],
                              Tail(todo), linkedId, parentId)
           ELSE MergeDeps([deps |-> acc.deps, own |-> Append(acc.own, dep)],
                          Tail(todo), linkedId, parentId)

\* ------------------------------------------------------------------------
\* parseYouTrackUrl.  A URL is the sequence of its "/"-separated segments; a
\* segment matches [A-Z]+-\d+ iff it is one of Ids.
\* ------------------------------------------------------------------------
Urls ==
  { <<"https:", "", "yt.example", "issue", "R-1">>,
    <<"https:", "", "yt.example", "issues", "R-1">>,
    <<"https:", "", "yt.example", "issue", "overview">>,
    <<"https:", "", "yt.example", "agiles", "R-1">>,
    <<"issue", "R-1">> }

\* positions k where ([^\/]+)\/issue\/([A-Z]+-\d+) matches with "issue" at k
UrlMatches(url) ==
  { k \in 2..(Len(url) - 1) : url[k - 1] # "" /\ url[k] = "issue" /\ url[k + 1] \in Ids }

Min(S) == CHOOSE x \in S : \A y \in S : x <= y

parseYouTrackUrl(url) ==
  IF UrlMatches(url) = {} THEN <<>>
  ELSE LET k == Min(UrlMatches(url))
           first == Min({ j \in 2..(Len(url) - 1) : url[j] = "issue" })
       IN  << [baseUrl |-> SubSeq(url, 1, first - 1), issueId |-> url[k + 1]] >>

\* ------------------------------------------------------------------------
\* parseGoogleChatExport(chatText). A text is a sequence of lines (split on
\* "\n"), a line a sequence of tokens; " " is white space, a date and time
\* clause is one token.
\* ------------------------------------------------------------------------
\* \w+\s+\d{1,2}(?:,\s+\d{4})?,\s+\d{1,2}:\d{2}\s*(?:AM|PM|am|pm)? of timePattern
StampsA == {"Nov 24, 2:24 PM", "Nov 24, 2024, 2:26 PM"}

\* the first group of legacyPattern: a time, or a date with year and time
StampsB == {"2:25 PM", "Nov 24, 2024, 2:26 PM"}

ExportLines ==
  { <<" ">>,
    <<"Ann", ",", "Nov 24, 2:24 PM">>,
    <<"Bob", ",", "Nov 24, 2024, 2:26 PM", ",", "Edited">>,
    <<"2:25 PM", "Ann", ":", "see", "A-2", "A-2">>,
    <<"2:25 PM", "Bob", ":", "ok", ",", "Nov 24, 2:24 PM">>,
    <<"see", "A-2", "B-3">>,
    <<" ", "A-2", "done", " ">> }

ExportTexts == SeqsUpTo(ExportLines, MaxLines)

\* tokens with a comma in them, tokens with a colon in them
CommaTokens == {","} \cup StampsA \cup (StampsB \ {"2:25 PM"})
ColonTokens == {":"} \cup StampsA \cup StampsB

\* String.prototype.trim on a line
RECURSIVE TrimLeft(_)
TrimLeft(line) ==
  IF line # <<>> /\ Head(line) = " " THEN TrimLeft(Tail(line)) ELSE line

RECURSIVE TrimRight(_)
TrimRight(line) ==
  IF line # <<>> /\ line[Len(line)] = " "
  THEN TrimRight(SubSeq(line, 1, Len(line) - 1))
  ELSE line

Trim(line) == TrimRight(TrimLeft(line))

\* chatText.trim() is the empty string
IsBlankText(text) == \A k \in 1..Len(text) : Trim(text[k]) = <<>>

\* line.match(timePattern): ([^,]+) ends at the first comma of the line, the
\* clause and an optional ", Edited" follow; match[2] without ", Edited" is the
\* timestamp. A first comma inside a date and time clause leaves no clause
\* after it.
matchTimePattern(line) ==
  LET commas == { k \in 1..Len(line) : line[k] \in CommaTokens }
      p == IF commas = {} THEN 0 ELSE Min(commas)
      rest == SubSeq(line, p + 1, Len(line))
  IN  IF /\ p >= 2
         /\ line[p] = ","
         /\ rest # <<>>
         /\ rest[1] \in StampsA
         /\ rest \in {<<rest[1]>>, <<rest[1], ",", "Edited">>}
      THEN <<[sender |-> Trim(SubSeq(line, 1, p - 1)), timestamp |-> rest[1]]>>
      ELSE <<>>

\* line.match(legacyPattern): the stamp, (.+?) up to the first colon that
\* leaves a sender before it and a text after it (in ExportLines that colon is
\* never one inside a date and time clause)
matchLegacyPattern(line) ==
  LET colons == { k \in 3..(Len(line) - 1) : line[k] \in ColonTokens }
  IN  IF line # <<>> /\ line[1] \in StampsB /\ colons # {} /\ line[Min(colons)] = ":"
      THEN <<[timestamp |-> line[1],
              sender |-> Trim(SubSeq(line, 2, Min(colons) - 1)),
              text |-> Trim(SubSeq(line, Min(colons) + 1, Len(line)))]>>
      ELSE <<>>

\* the matches of /\b([A-Z]+-\d+)\b/g, in order
ticketIdsIn(line) == SelectSeq(line, LAMBDA tok : tok \in Ids)

\* push each id that ticketIds does not include
RECURSIVE pushNew(_, _)
pushNew(ticketIds, found) ==
  IF found = <<>> THEN ticketIds
  ELSE pushNew(IF \E k \in 1..Len(ticketIds) : ticketIds[k] = Head(found)
               THEN ticketIds
               ELSE Append(ticketIds, Head(found)),
               Tail(found))

\* mutant of ExportLine: a Header A line pushes the open message as a legacy
\* line does
ExportLinePushAlways(st, rawLine) ==
  LET line == Trim(rawLine)
      a == matchTimePattern(line)
      b == matchLegacyPattern(line)
  IN  IF line = <<>> THEN st
      ELSE IF a # <<>>
      THEN [out |-> IF st.cur # <<>> THEN Append(st.out, st.cur[1]) ELSE st.out,
            cur |-> <<[name |-> "", sender |-> a[1].sender, text |-> <<>>,
                       timestamp |-> a[1].timestamp, ticketIds |-> <<>>]>>]
      ELSE IF b # <<>>
      THEN [out |-> IF st.cur # <<>> THEN Append(st.out, st.cur[1]) ELSE st.out,
            cur |-> <<[name |-> "", sender |-> b[1].sender, text |-> <<b[1].text>>,
                       timestamp |-> b[1].timestamp,
                       ticketIds |-> ticketIdsIn(b[1].text)]>>]
      ELSE IF st.cur # <<>>
      THEN [out |-> st.out,
            cur |-> <<[st.cur[1] EXCEPT
                         !.text = Append(@, line),
                         !.ticketIds = pushNew(@, ticketIdsIn(line))]>>]
      ELSE st

\* mutant of ExportLine: the text of a legacy line is not kept
ExportLineNoInlineText(st, rawLine) ==
  LET line == Trim(rawLine)
      a == matchTimePattern(line)
      b == matchLegacyPattern(line)
  IN  IF line = <<>> THEN st
      ELSE IF a # <<>>
      THEN [out |-> IF st.cur # <<>> /\ st.cur[1].text # <<>>
                    THEN Append(st.out, st.cur[1]) ELSE st.out,
            cur |-> <<[name |-> "", sender |-> a[1].sender, text |-> <<>>,
                       timestamp |-> a[1].timestamp, ticketIds |-> <<>>]>>]
      ELSE IF b # <<>>
      THEN [out |-> IF st.cur # <<>> THEN Append(st.out, st.cur[1]) ELSE st.out,
            cur |-> <<[name |-> "", sender |-> b[1].sender, text |-> <<>>,
                       timestamp |-> b[1].timestamp,
                       ticketIds |-> ticketIdsIn(b[1].text)]>>]
      ELSE IF st.cur # <<>>
      THEN [out |-> st.out,
            cur |-> <<[st.cur[1] EXCEPT
                         !.text = Append(@, line),
                         !.ticketIds = pushNew(@, ticketIdsIn(line))]>>]
      ELSE st

\* one pass of lines.forEach; st is [out |-> messages, cur |-> currentMessage].
\* A message's text is the sequence of its lines (joined by "\n" in the code);
\* name is "": the parser sets none
ExportLine(st, rawLine) ==
  LET line == Trim(rawLine)
      a == matchTimePattern(line)
      b == matchLegacyPattern(line)
  IN  IF line = <<>> THEN st
      ELSE IF a # <<>>
      THEN [out |-> IF st.cur # <<>> /\ st.cur[1].text # <<>>
                    THEN Append(st.out, st.cur[1]) ELSE st.out,
            cur |-> <<[name |-> "", sender |-> a[1].sender, text |-> <<>>,
                       timestamp |-> a[1].timestamp, ticketIds |-> <<>>]>>]
      ELSE IF b # <<>>
      THEN [out |-> IF st.cur # <<>> THEN Append(st.out, st.cur[1]) ELSE st.out,
            cur |-> <<[name |-> "", sender |-> b[1].sender, text |-> <<b[1].text>>,
                       timestamp |-> b[1].timestamp,
                       ticketIds |-> ticketIdsIn(b[1].text)]>>]
      ELSE IF st.cur # <<>>
      THEN [out |-> st.out,
            cur |-> <<[st.cur[1] EXCEPT
                         !.text = Append(@, line),
                         !.ticketIds = pushNew(@, ticketIdsIn(line))]>>]
      ELSE st

\* after the loop: if (currentMessage) messages.push(currentMessage)
ExportFlush(st) == IF st.cur # <<>> THEN Append(st.out, st.cur[1]) ELSE st.out

RECURSIVE ExportLinesFrom(_, _)
ExportLinesFrom(st, lines) ==
  IF lines = <<>> THEN st ELSE ExportLinesFrom(ExportLine(st, Head(lines)), Tail(lines))

\* the messages of the dataset parseGoogleChatExport returns
parseGoogleChatExport(chatText) ==
  ExportFlush(ExportLinesFrom([out |-> <<>>, cur |-> <<>>], chatText))

\* ------------------------------------------------------------------------
\* analyze(data): the reply of the model and the JSON taken from it. A reply
\* is a sequence of tokens: "fence json" is the opening fence of a json code
\* block (three backquotes and the word json), "fence" three backquotes alone,
\* "{" and "}" are braces, "m" is a member of an object, "null" the literal,
\* the others are prose.
\* ------------------------------------------------------------------------
LlmTexts ==
  { <<"{", "m", "}">>,
    <<"fence json", "{", "m", "}", "fence">>,
    <<"Here", "{", "}", "it", "is">>,
    <<"null">>,
    <<"sorry">>,
    <<"fence json", "{", "m", "fence">>,
    <<"{", "}", "or", "{", "}">>,
    <<"}", "{">> }

\* what the model answers in the crawl specifications: JSON, or prose
FewLlmTexts == { <<"{", "m", "}">>, <<"sorry">> }

\* txt.match of the json code block pattern: the tokens between the first
\* opening fence and the next fence (an opening fence begins with three
\* backquotes too)
jsonBlockMatch(txt) ==
  LET opens == { k \in 1..Len(txt) : txt[k] = "fence json" }
      from == IF opens = {} THEN 0 ELSE Min(opens)
      closes == { k \in (from + 1)..Len(txt) : txt[k] \in {"fence", "fence json"} }
  IN  IF opens # {} /\ closes # {}
      THEN <<SubSeq(txt, from + 1, Min(closes) - 1)>>
      ELSE <<>>

Max(S) == CHOOSE x \in S : \A y \in S : x >= y

\* jsonStr: the fenced block, else from the first "{" to the last "}", else txt
jsonStrOf(txt) ==
  LET starts == { k \in 1..Len(txt) : txt[k] = "{" }
      ends == { k \in 1..Len(txt) : txt[k] = "}" }
  IN  IF jsonBlockMatch(txt) # <<>> THEN jsonBlockMatch(txt)[1]
      ELSE IF starts # {} /\ ends # {} /\ Max(ends) > Min(starts)
      THEN SubSeq(txt, Min(starts), Max(ends))
      ELSE txt

\* JSON.parse: an object of members, or null; <<>> when it throws
JSONparse(str) ==
  IF str = <<"null">> THEN <<"null">>
  ELSE IF /\ Len(str) >= 2
          /\ str[1] = "{"
          /\ str[Len(str)] = "}"
          /\ \A k \in 2..(Len(str) - 1) : str[k] = "m"
  THEN <<"object">>
  ELSE <<>>

\* mutant of analyzeReply: an unparsable reply yields null
analyzeReplyNoFallback(txt) ==
  IF JSONparse(Trim(jsonStrOf(txt))) # <<>>
  THEN [raw |-> <<>>, json |-> JSONparse(Trim(jsonStrOf(txt)))[1]]
  ELSE [raw |-> <<>>, json |-> "null"]

\* what analyze returns for the reply txt: the parsed value (json), or
\* { raw: txt } when JSON.parse throws
analyzeReply(txt) ==
  IF JSONparse(Trim(jsonStrOf(txt))) # <<>>
  THEN [raw |-> <<>>, json |-> JSONparse(Trim(jsonStrOf(txt)))[1]]
  ELSE [raw |-> <<txt>>, json |-> "none"]

\* anthropic.messages.create throws, or returns one of the texts
LlmOutcomes(texts) ==
  {[ok |-> FALSE, text |-> <<>>]} \cup { [ok |-> TRUE, text |-> t] : t \in texts }

\* ------------------------------------------------------------------------
\* addToHistory
\* ------------------------------------------------------------------------
\* mutant of addToHistory: nothing is removed
addToHistoryUnbounded(history, item) == <<item>> \o history

\* mutant of addToHistory: shift() instead of pop()
addToHistoryShift(history, item) ==
  LET h == <<item>> \o history
  IN  IF Len(h) > MAX_HISTORY THEN Tail(h) ELSE h

addToHistory(history, item) ==
  LET h == <<item>> \o history
  IN  IF Len(h) > MAX_HISTORY THEN SubSeq(h, 1, Len(h) - 1) ELSE h

\* ------------------------------------------------------------------------
\* crawlYouTrack: the code after the loop. A histogram is a function from the
\* values seen to their counts.
\* ------------------------------------------------------------------------
NoStats ==
  [totalChildren |-> 0, totalRelated |-> 0, totalDependencies |-> 0, totalComments |-> 0,
   childrenByState |-> <<>>, childrenByType |-> <<>>, childrenByAssignee |-> <<>>]

\* mutant of Increment: the count of a value seen before starts again at 1
IncrementFromZero(hist, value) ==
  [v \in DOMAIN hist \cup {value} |-> IF v = value THEN 1 ELSE hist[v]]

\* hist[value] = (hist[value] || 0) + 1
Increment(hist, value) ==
  [v \in DOMAIN hist \cup {value} |->
     IF v = value THEN (IF value \in DOMAIN hist THEN hist[value] ELSE 0) + 1 ELSE hist[v]]

\* the forEach over result.children, on the values of one field
RECURSIVE Histogram(_)
Histogram(values) ==
  IF values = <<>> THEN <<>>
  ELSE Increment(Histogram(SubSeq(values, 1, Len(values) - 1)), values[Len(values)])

\* allComments.reduce(sum + ic.comments.length, 0)
RECURSIVE SumComments(_)
SumComments(allComments) ==
  IF allComments = <<>> THEN 0
  ELSE Len(Head(allComments).comments) + SumComments(Tail(allComments))

\* c.state || 'Unknown', c.type || 'Issue', c.assignee || 'Unassigned'
OrDefault(value, default) == IF value # "" THEN value ELSE default

\* relatedItems is cleared, stats is built, crawlYouTrack returns
crawlReturn(res) ==
  [res EXCEPT
     !.relatedItems = <<>>,
     !.stats =
        [totalChildren |-> Len(res.children),
         totalRelated |-> 0,
         totalDependencies |-> Len(res.dependencies),
         totalComments |-> SumComments(res.allComments),
         childrenByState |->
           Histogram([k \in 1..Len(res.children) |-> OrDefault(res.children[k].state, "Unknown")]),
         childrenByType |->
           Histogram([k \in 1..Len(res.children) |-> OrDefault(res.children[k].type, "Issue")]),
         childrenByAssignee |->
           Histogram([k \in 1..Len(res.children) |->
                        OrDefault(res.children[k].assignee, "Unassigned")])]]

\* the graph when the for loop reaches index next: the loop goes on, or
\* crawlYouTrack returns
AfterItem(res, next, items) == IF next <= Len(items) THEN res ELSE crawlReturn(res)

\* ------------------------------------------------------------------------
\* correlateChatsWithTickets(ticketData, chatData), chatData not null
\* ------------------------------------------------------------------------
\* ticketIds of a message: every match of the ticket regex in its text, in
\* order; an id the text repeats is in the list once per occurrence
TicketIdLists == { <<>>, <<"A-2">>, <<"A-2", "B-3">>, <<"A-2", "A-2">> }

\* messages as fetchGoogleChatMessages builds them: name is msg.name ("" when
\* the service sent none), there is no timestamp field
ApiMessages ==
  { [name |-> n, timestamp |-> "", ticketIds |-> t] :
      n \in {"", "spaces/s/messages/1", "spaces/s/messages/2"}, t \in TicketIdLists }

\* messages as parseGoogleChatExport builds them: no name, the timestamp is the
\* date and time clause of the header line
ExportMessages ==
  { [name |-> "", timestamp |-> ts, ticketIds |-> t] :
      ts \in {"Nov 24, 2:24 PM", "Nov 24, 2:26 PM"}, t \in TicketIdLists }

\* a dataset comes from one of the two parsers; the chat service names every
\* message differently
ChatDatasets ==
  { d \in SeqsUpTo(ApiMessages, MaxMessages) :
      \A a, b \in 1..Len(d) : (a # b /\ d[a].name # "") => d[a].name # d[b].name }
  \cup SeqsUpTo(ExportMessages, MaxMessages)

\* values of Math.random().toString()
RandomTokens == {"0.25", "0.75"}

NoCorrelations ==
  [ticketToChats |-> <<>>, chatToTickets |-> <<>>, unlinkedChats |-> <<>>]

\* ticketMentions as both chat parsers build it: ticket id -> mentions in
\* message order, one per occurrence of the id in a message's ticketIds
RECURSIVE MentionsOf(_, _)
MentionsOf(messages, ticketId) ==
  IF messages = <<>> THEN <<>>
  ELSE LET msg == Head(messages)
           hits == SelectSeq(msg.ticketIds, LAMBDA t : t = ticketId)
       IN  [k \in 1..Len(hits) |-> [name |-> msg.name, timestamp |-> msg.timestamp]]
           \o MentionsOf(Tail(messages), ticketId)

ticketMentions(messages) ==
  LET mentioned == UNION { { messages[k].ticketIds[j] : j \in 1..Len(messages[k].ticketIds) }
                           : k \in 1..Len(messages) }
  IN  [t \in mentioned |-> MentionsOf(messages, t)]

\* msg.name || msg.timestamp || Math.random().toString()
MsgId(msg, random) ==
  IF msg.name # "" THEN msg.name
  ELSE IF msg.timestamp # "" THEN msg.timestamp
  ELSE random

\* mutant of CorrelateMessage: a message whose msgId is taken goes to unlinked
CorrelateMessageCollisionUnlinked(acc, msg, random) ==
  IF Len(msg.ticketIds) > 0
  THEN LET msgId == MsgId(msg, random)
       IN  [c2t |-> IF msgId \in DOMAIN acc.c2t
                    THEN acc.c2t
                    ELSE [key \in DOMAIN acc.c2t \cup {msgId} |->
                            IF key = msgId THEN msg.ticketIds ELSE acc.c2t[key]],
            unlinked |-> IF msgId \in DOMAIN acc.c2t
                         THEN Append(acc.unlinked, msg) ELSE acc.unlinked,
            ids |-> Append(acc.ids, msgId)]
  ELSE [c2t |-> acc.c2t,
        unlinked |-> Append(acc.unlinked, msg),
        ids |-> Append(acc.ids, "")]

\* mutant of CorrelateMessage: a later message overwrites the entry of its key
CorrelateMessageLastWins(acc, msg, random) ==
  IF Len(msg.ticketIds) > 0
  THEN LET msgId == MsgId(msg, random)
       IN  [c2t |-> [key \in DOMAIN acc.c2t \cup {msgId} |->
                       IF key = msgId THEN msg.ticketIds ELSE acc.c2t[key]],
            unlinked |-> acc.unlinked,
            ids |-> Append(acc.ids, msgId)]
  ELSE [c2t |-> acc.c2t,
        unlinked |-> Append(acc.unlinked, msg),
        ids |-> Append(acc.ids, "")]

\* one pass of chatData.messages.forEach; acc is [c2t, unlinked, ids]
CorrelateMessage(acc, msg, random) ==
  IF Len(msg.ticketIds) > 0
  THEN LET msgId == MsgId(msg, random)
       IN  [c2t |-> IF msgId \in DOMAIN acc.c2t
                    THEN acc.c2t
                    ELSE [key \in DOMAIN acc.c2t \cup {msgId} |->
                            IF key = msgId THEN msg.ticketIds ELSE acc.c2t[key]],
            unlinked |-> acc.unlinked,
            ids |-> Append(acc.ids, msgId)]
  ELSE [c2t |-> acc.c2t,
        unlinked |-> Append(acc.unlinked, msg),
        ids |-> Append(acc.ids, "")]

RECURSIVE CorrelateFrom(_, _, _)
CorrelateFrom(acc, messages, randoms) ==
  IF messages = <<>> THEN acc
  ELSE CorrelateFrom(CorrelateMessage(acc, Head(messages), Head(randoms)),
                     Tail(messages), Tail(randoms))

\* correlateChatsWithTickets(ticketData, chatData) on chatData.messages
correlateChatsWithTickets(msgs, randoms) ==
  LET out == CorrelateFrom([c2t |-> <<>>, unlinked |-> <<>>, ids |-> <<>>], msgs, randoms)
  IN  [ticketToChats |-> ticketMentions(msgs),
       chatToTickets |-> out.c2t,
       unlinkedChats |-> out.unlinked]

\* ------------------------------------------------------------------------
\* parseGoogleChatUrl
\* ------------------------------------------------------------------------
\* what parseGoogleChatUrl reads of a URL: whether new URL() accepts it, whether
\* the path has /spaces/<id>, and the key parameter ("" when absent)
ChatUrls ==
  { [wellFormed |-> w, hasSpace |-> sp, key |-> k] :
      w \in BOOLEAN, sp \in BOOLEAN, k \in {"", "K"} }

parseGoogleChatUrl(url) == url.wellFormed /\ url.hasSpace /\ url.key # ""

\* ------------------------------------------------------------------------
\* State
\* ------------------------------------------------------------------------
VARIABLES
  pc,              \* where the Analyze request stands: the await it is suspended at
  req,             \* req.body.url
  status,          \* HTTP status of the response, 0 while none was sent
  issueReqs,       \* ids requested by fetchIssue, in request order
  commentReqs,     \* ids requested by fetchComments, in request order
  responses,       \* the tracker's responses so far (history of the environment)
  mainIssue,       \* crawlYouTrack: raw root issue, optional
  result,          \* crawlYouTrack: the graph under construction
  frontier,        \* crawlYouTrack: uniqueLinkedItems
  i,               \* crawlYouTrack: loop index, 1-based
  linkedIssue,     \* crawlYouTrack: raw linked issue of this iteration, optional
  llmCalls,        \* number of anthropic.messages.create calls made
  reqBody,         \* req.body.chatExport and req.body.chatUrl, each optional
  chatMessages,    \* data.chatMessages.messages, optional
  dataCorrelations, \* data.correlations, optional
  response,        \* the body of the 200 response, optional
  llmReply         \* what anthropic.messages.create did, <<>> while it has not returned

crawlVars == <<pc, req, status, issueReqs, commentReqs, responses, mainIssue,
               result, frontier, i, linkedIssue, llmCalls, reqBody, chatMessages,
               dataCorrelations, response, llmReply>>

\* the history store: analysisHistory and its backing file
VARIABLES
  analysisHistory, \* the history list
  historyFile,     \* the list stored in the history file, <<>> while there is no file
  saveFailed,      \* the last fs.writeFileSync of the history file threw
  now,             \* Date.now()
  serial,          \* entries created so far; entry.n numbers them (not in the code)
  evicted,         \* n of the entries removed by pop() in addToHistory
  deleted,         \* n of the entries removed by splice() in the delete handler
  hpc,             \* concurrent requests: where each Analyze request stands
  hstatus,         \* concurrent requests: HTTP status of each response, 0 while none
  deletes,         \* delete requests handled so far
  deletedIds,      \* ids the delete handler removed an entry for (not in the code)
  hresp            \* the last response to an Ask, history list, get or delete request

histVars == <<analysisHistory, historyFile, saveFailed, now, serial, evicted, deleted, hpc, hstatus,
              deletes, deletedIds, hresp>>

\* correlateChatsWithTickets
VARIABLES
  corrPc,        \* "idle", "called" (chatData is given), "done"
  chatData,      \* chatData.messages
  msgIds,        \* the msgId computed for each message with mentions, "" for the others
  correlations   \* the value returned

corrVars == <<corrPc, chatData, msgIds, correlations>>

\* fetchGoogleChatMessages
VARIABLES
  pagePc,        \* "idle", "called", "page" (axios.get outstanding), "done"
  chatUrl,       \* the URL given
  pageToken,     \* "" when null or undefined
  pageCount,
  pageRequests,  \* axios.get calls made
  fetched,       \* messages.length
  chatResult     \* "none" while running, then "null" or "data"

pageVars == <<pagePc, chatUrl, pageToken, pageCount, pageRequests, fetched, chatResult>>

\* parseGoogleChatExport
VARIABLES
  exportPc,        \* "idle", "lines" (inside lines.forEach), "done"
  chatText,        \* the lines of the text given
  lineNo,          \* lines passed so far
  currentMessage,  \* optional
  exportMessages   \* messages

exportVars == <<exportPc, chatText, lineNo, currentMessage,
               exportMessages>>

NoTicket ==
  [id |-> "", type |-> "", state |-> "", assignee |-> "", comments |-> <<>>, children |-> <<>>, parents |-> <<>>,
   relatedItems |-> <<>>, dependencies |-> <<>>, linkTypeToParent |-> ""]

NoGraph ==
  [baseUrl |-> <<>>, parent |-> NoTicket, children |-> <<>>, relatedItems |-> <<>>,
   dependencies |-> <<>>, allComments |-> <<>>, stats |-> NoStats]

NoBody == [chatExport |-> <<>>, chatUrl |-> <<>>]

InitCrawl ==
  /\ pc = "idle"
  /\ req = <<>>
  /\ status = 0
  /\ issueReqs = <<>>
  /\ commentReqs = <<>>
  /\ responses = <<>>
  /\ mainIssue = <<>>
  /\ result = NoGraph
  /\ frontier = <<>>
  /\ i = 0
  /\ linkedIssue = <<>>
  /\ llmCalls = 0
  /\ reqBody = NoBody
  /\ chatMessages = <<>>
  /\ dataCorrelations = <<>>
  /\ response = <<>>
  /\ llmReply = <<>>

\* ------------------------------------------------------------------------
\* The history store: loadHistoryFromFile, saveHistoryToFile, addToHistory,
\* app.delete('/api/history/:id'). Each runs without an await, so each is one
\* step. The file is modelled by the list it parses to.
\* ------------------------------------------------------------------------
ValidUrl == <<"https:", "", "yt.example", "issue", "R-1">>

\* the entry addToHistory builds; n numbers the entries (not in the code)
HistoryItem(time, n, analysis) ==
  [id |-> time, n |-> n, issueId |-> RootId, url |-> ValidUrl, analysis |-> analysis]

\* a file written by an earlier run: len entries, most recent first, all older
\* than this run
StoredHistory(len) ==
  [k \in 1..len |-> HistoryItem(len + 1 - k, len + 1 - k, analyzeReply(<<"{", "m", "}">>))]

\* lengths of the stored list the model starts from
StoredLens == {0, 1, MAX_HISTORY - 1, MAX_HISTORY}

\* JSON.parse of the file; [] when there is no file
loadHistoryFromFile(file) == file

\* mutant of saveHistoryToFile: the file is appended to, not rewritten
saveHistoryToFileAppend(file, history, ok) == IF ok THEN file \o history ELSE file

\* fs.writeFileSync succeeds (ok) or throws; the error is logged and dropped
saveHistoryToFile(file, history, ok) == IF ok THEN history ELSE file

\* outcomes of fs.writeFileSync
WriteOutcomes == BOOLEAN

Ns(history) == { history[k].n : k \in 1..Len(history) }

\* no response was sent
NoResponse == [op |-> "none", id |-> 0, status |-> 0, found |-> <<>>]

\* the history store of a server that handles no history request
HistoryIdle ==
  /\ analysisHistory = <<>>
  /\ historyFile = <<>>
  /\ saveFailed = FALSE
  /\ now = 1
  /\ serial = 0
  /\ evicted = {}
  /\ deleted = {}
  /\ hpc = [r \in 1..MaxRequests |-> "idle"]
  /\ hstatus = [r \in 1..MaxRequests |-> 0]
  /\ deletes = 0
  /\ deletedIds = {}
  /\ hresp = NoResponse

\* the server after start-up: analysisHistory = loadHistoryFromFile()
InitHistory ==
  \E len \in StoredLens :
    /\ historyFile = StoredHistory(len)
    /\ analysisHistory = loadHistoryFromFile(StoredHistory(len))
    /\ saveFailed = FALSE
    /\ now = MAX_HISTORY + 1
    /\ serial = len
    /\ evicted = {}
    /\ deleted = {}
    /\ hpc = [r \in 1..MaxRequests |-> "idle"]
    /\ hstatus = [r \in 1..MaxRequests |-> 0]
    /\ deletes = 0
    /\ deletedIds = {}
    /\ hresp = NoResponse

\* addToHistory(issueId, url, data, analysis) with its saveHistoryToFile
HistoryAdd(analysis, ok) ==
  /\ analysisHistory' = addToHistory(analysisHistory, HistoryItem(now, serial + 1, analysis))
  /\ historyFile' = saveHistoryToFile(historyFile, analysisHistory', ok)
  /\ saveFailed' = ~ok
  /\ serial' = serial + 1
  /\ evicted' = IF Len(analysisHistory) >= MAX_HISTORY
                THEN evicted \cup {analysisHistory[Len(analysisHistory)].n}
                ELSE evicted
  /\ UNCHANGED <<now, deleted>>

\* findIndex(h => h.id === id): 0 for -1
findIndex(history, id) ==
  IF \E k \in 1..Len(history) : history[k].id = id
  THEN Min({ k \in 1..Len(history) : history[k].id = id })
  ELSE 0

\* mutant of splice: splice(index), which removes the rest of the list
spliceRest(history, index) == SubSeq(history, 1, index - 1)

\* splice(index, 1)
splice(history, index) ==
  SubSeq(history, 1, index - 1) \o SubSeq(history, index + 1, Len(history))

\* ids a delete request names: those of the first two entries and of the last
\* one, and one that is not in the list
DeleteIds ==
  { analysisHistory[k].id : k \in {1, 2, Len(analysisHistory)} \cap 1..Len(analysisHistory) }
    \cup {0}

\* app.delete('/api/history/:id')
DeleteHistory ==
  /\ deletes < MaxDeletes
  /\ deletes' = deletes + 1
  /\ \E id \in DeleteIds :
       LET index == findIndex(analysisHistory, id)
       IN  IF index = 0
           THEN /\ hresp' = [op |-> "delete", id |-> id, status |-> 404, found |-> <<>>]
                /\ UNCHANGED <<analysisHistory, historyFile, saveFailed, deleted, deletedIds>>
           ELSE /\ analysisHistory' = splice(analysisHistory, index)
                /\ deleted' = deleted \cup {analysisHistory[index].n}
                /\ deletedIds' = deletedIds \cup {id}
                /\ \E ok \in WriteOutcomes :
                     /\ historyFile' = saveHistoryToFile(historyFile, analysisHistory', ok)
                     /\ saveFailed' = ~ok
                /\ hresp' = [op |-> "delete", id |-> id, status |-> 200, found |-> <<>>]
  /\ UNCHANGED <<now, serial, evicted, hpc, hstatus>>
  /\ UNCHANGED <<crawlVars, corrVars, pageVars, exportVars>>

\* ids a get request names: those a delete request may name, and the deleted ones
GetIds == DeleteIds \cup deletedIds

\* find(h => h.id === id): the entry, or nothing for undefined
find(history, id) ==
  IF findIndex(history, id) = 0 THEN <<>> ELSE <<history[findIndex(history, id)]>>

\* app.get('/api/history/:id'); found is the n of the entry that is sent
GetHistory ==
  /\ \E id \in GetIds :
       LET item == find(analysisHistory, id)
       IN  hresp' = IF item = <<>>
                    THEN [op |-> "get", id |-> id, status |-> 404, found |-> <<>>]
                    ELSE [op |-> "get", id |-> id, status |-> 200, found |-> <<item[1].n>>]
  /\ UNCHANGED <<analysisHistory, historyFile, saveFailed, now, serial, evicted, deleted, hpc,
                 hstatus, deletes, deletedIds>>
  /\ UNCHANGED <<crawlVars, corrVars, pageVars, exportVars>>

\* app.get('/api/history'); found is the n of the entries of the summary
ListHistory ==
  /\ hresp' = [op |-> "list", id |-> 0, status |-> 200,
               found |-> [k \in 1..Len(analysisHistory) |-> analysisHistory[k].n]]
  /\ UNCHANGED <<analysisHistory, historyFile, saveFailed, now, serial, evicted, deleted, hpc,
                 hstatus, deletes, deletedIds>>
  /\ UNCHANGED <<crawlVars, corrVars, pageVars, exportVars>>

\* app.post('/api/chat'): the model call returns or throws
Ask ==
  /\ \E ok \in BOOLEAN :
       hresp' = [op |-> "ask", id |-> 0, status |-> IF ok THEN 200 ELSE 500, found |-> <<>>]
  /\ UNCHANGED <<analysisHistory, historyFile, saveFailed, now, serial, evicted, deleted, hpc,
                 hstatus, deletes, deletedIds>>
  /\ UNCHANGED <<crawlVars, corrVars, pageVars, exportVars>>

\* the clock advances
Tick ==
  /\ now < MAX_HISTORY + 1 + MaxTicks
  /\ now' = now + 1
  /\ UNCHANGED <<analysisHistory, historyFile, saveFailed, serial, evicted, deleted, hpc,
                 hstatus, deletes, deletedIds, hresp>>
  /\ UNCHANGED <<crawlVars, corrVars, pageVars, exportVars>>

\* app.post('/api/analyze') of request r among concurrent ones, from one await
\* to the next; the crawl is reduced to its outcome
AnalyzeStartOf(r) ==
  /\ hpc[r] = "idle"
  /\ \E url \in Urls :
       IF parseYouTrackUrl(url) = <<>>
       THEN /\ hpc' = [hpc EXCEPT ![r] = "done"]
            /\ hstatus' = [hstatus EXCEPT ![r] = 400]
       ELSE /\ hpc' = [hpc EXCEPT ![r] = "crawl"]
            /\ hstatus' = hstatus
  /\ UNCHANGED <<analysisHistory, historyFile, saveFailed, now, serial, evicted, deleted, deletes,
                 deletedIds, hresp>>
  /\ UNCHANGED <<crawlVars, corrVars, pageVars, exportVars>>

\* mutant of CrawlDoneOf: a crawl that threw leaves an entry in the history
CrawlDoneOfRecordsFailure(r) ==
  /\ hpc[r] = "crawl"
  /\ \E ok \in BOOLEAN :
       IF ok
       THEN /\ hpc' = [hpc EXCEPT ![r] = "llm"]
            /\ hstatus' = hstatus
            /\ UNCHANGED <<analysisHistory, historyFile, saveFailed, now, serial, evicted, deleted>>
       ELSE /\ hpc' = [hpc EXCEPT ![r] = "done"]
            /\ hstatus' = [hstatus EXCEPT ![r] = 500]
            /\ HistoryAdd(analyzeReply(<<"sorry">>), TRUE)
  /\ UNCHANGED <<deletes, deletedIds, hresp>>
  /\ UNCHANGED <<crawlVars, corrVars, pageVars, exportVars>>

\* crawlYouTrack returns or throws
CrawlDoneOf(r) ==
  /\ hpc[r] = "crawl"
  /\ \E ok \in BOOLEAN :
       IF ok
       THEN /\ hpc' = [hpc EXCEPT ![r] = "llm"]
            /\ hstatus' = hstatus
       ELSE /\ hpc' = [hpc EXCEPT ![r] = "done"]
            /\ hstatus' = [hstatus EXCEPT ![r] = 500]
  /\ UNCHANGED <<analysisHistory, historyFile, saveFailed, now, serial, evicted, deleted, deletes,
                 deletedIds, hresp>>
  /\ UNCHANGED <<crawlVars, corrVars, pageVars, exportVars>>

\* analyze returns or throws; then addToHistory, which throws on a null
\* analysis before it changes the list, and the 200 response
LlmDoneOf(r) ==
  /\ hpc[r] = "llm"
  /\ hpc' = [hpc EXCEPT ![r] = "done"]
  /\ \E o \in LlmOutcomes({<<"{", "m", "}">>, <<"null">>}) :
       IF ~o.ok \/ analyzeReply(o.text).json = "null"
       THEN /\ hstatus' = [hstatus EXCEPT ![r] = 500]
            /\ UNCHANGED <<analysisHistory, historyFile, saveFailed, now, serial, evicted, deleted>>
       ELSE /\ hstatus' = [hstatus EXCEPT ![r] = 200]
            /\ \E ok \in WriteOutcomes : HistoryAdd(analyzeReply(o.text), ok)
  /\ UNCHANGED <<deletes, deletedIds, hresp>>
  /\ UNCHANGED <<crawlVars, corrVars, pageVars, exportVars>>

NextHistory ==
  \/ \E r \in 1..MaxRequests : AnalyzeStartOf(r)
  \/ \E r \in 1..MaxRequests : CrawlDoneOf(r)
  \/ \E r \in 1..MaxRequests : LlmDoneOf(r)
  \/ DeleteHistory
  \/ Tick

\* ------------------------------------------------------------------------
\* The Analyze request, app.post('/api/analyze'), and the crawl it runs.
\* bd is the set of chat inputs a request may carry; rl, cl and cm bound what
\* the tracker answers: links of the root issue, links of a linked issue,
\* comments of a ticket; rp is the set of texts the model may reply, wr the
\* outcomes of writing the history file, fs the state, type and assignee
\* fields an issue may carry.
\* ------------------------------------------------------------------------
IssueResponses(id, maxLinks, fieldSets) ==
  {<<>>} \cup { <<x>> : x \in RawIssues(id, maxLinks, fieldSets) }

\* what a request may carry as chat input
BlankText == << <<" ">>, <<" ">> >>

SomeText ==
  << <<"Ann", ",", "Nov 24, 2:24 PM">>, <<"see", "A-2", "B-3">>,
     <<"2:25 PM", "Ann", ":", "see", "A-2", "A-2">> >>

Bodies ==
  { [chatExport |-> e, chatUrl |-> u] :
      e \in {<<>>, <<BlankText>>, <<SomeText>>},
      u \in {<<>>} \cup { <<url>> : url \in { c \in ChatUrls : c.hasSpace } } }

\* the messages of the dataset fetchGoogleChatMessages returns for n messages
\* of the service; they carry no name, no text and no createTime
ApiMessagesFetched(n) ==
  [k \in 1..n |-> [name |-> "", sender |-> <<"Unknown">>, text |-> <<>>, timestamp |-> "",
                   ticketIds |-> <<>>]]

\* the messages for which correlateChatsWithTickets calls Math.random()
NeedRandom(msgs) ==
  { k \in 1..Len(msgs) :
      Len(msgs[k].ticketIds) > 0 /\ msgs[k].name = "" /\ msgs[k].timestamp = "" }

\* data.chatMessages and data.correlations are set from chatData
ChatDataSet(msgs) ==
  /\ chatMessages' = <<msgs>>
  /\ \E drawn \in [NeedRandom(msgs) -> RandomTokens] :
       dataCorrelations' =
         <<correlateChatsWithTickets(msgs,
             [k \in 1..Len(msgs) |-> IF k \in NeedRandom(msgs) THEN drawn[k] ELSE ""])>>

\* mutant of ChatInput: the chat URL is looked at first
ChatInputUrlFirst ==
  IF reqBody.chatUrl # <<>>
  THEN /\ pc' = "chat"
       /\ pagePc' = "called"
       /\ chatUrl' = reqBody.chatUrl[1]
       /\ llmCalls' = llmCalls
       /\ UNCHANGED <<chatMessages, dataCorrelations>>
       /\ UNCHANGED <<pageToken, pageCount, pageRequests, fetched, chatResult>>
  ELSE IF reqBody.chatExport # <<>> /\ ~IsBlankText(reqBody.chatExport[1])
  THEN /\ ChatDataSet(parseGoogleChatExport(reqBody.chatExport[1]))
       /\ pc' = "llm"
       /\ llmCalls' = llmCalls + 1
       /\ UNCHANGED pageVars
  ELSE /\ pc' = "llm"
       /\ llmCalls' = llmCalls + 1
       /\ UNCHANGED <<chatMessages, dataCorrelations>>
       /\ UNCHANGED pageVars

\* the handler after crawlYouTrack returned: the chat input, up to the next
\* await (fetchGoogleChatMessages, or the model call of analyze)
ChatInput ==
  IF reqBody.chatExport # <<>> /\ ~IsBlankText(reqBody.chatExport[1])
  THEN /\ ChatDataSet(parseGoogleChatExport(reqBody.chatExport[1]))
       /\ pc' = "llm"
       /\ llmCalls' = llmCalls + 1
       /\ UNCHANGED pageVars
  ELSE IF reqBody.chatUrl # <<>>
  THEN /\ pc' = "chat"
       /\ pagePc' = "called"
       /\ chatUrl' = reqBody.chatUrl[1]
       /\ llmCalls' = llmCalls
       /\ UNCHANGED <<chatMessages, dataCorrelations>>
       /\ UNCHANGED <<pageToken, pageCount, pageRequests, fetched, chatResult>>
  ELSE /\ pc' = "llm"
       /\ llmCalls' = llmCalls + 1
       /\ UNCHANGED <<chatMessages, dataCorrelations>>
       /\ UNCHANGED pageVars

\* top of the for loop with index next, or the code after the loop: relatedItems
\* is cleared, crawlYouTrack returns and the handler goes on
LoopHead(next, items) ==
  IF next <= Len(items)
  THEN /\ pc' = "linkedIssue"
       /\ issueReqs' = Append(issueReqs, items[next].id)
       /\ llmCalls' = llmCalls
       /\ UNCHANGED <<chatMessages, dataCorrelations>>
       /\ UNCHANGED pageVars
  ELSE /\ issueReqs' = issueReqs
       /\ ChatInput

\* the handler up to its first await: parse the URL, start the crawl
AnalyzeStart(bd) ==
  /\ pc = "idle"
  /\ \E b \in bd : reqBody' = b
  /\ \E url \in Urls :
       /\ req' = url
       /\ IF parseYouTrackUrl(url) = <<>>
          THEN /\ status' = 400
               /\ pc' = "done"
               /\ issueReqs' = issueReqs
          ELSE /\ status' = status
               /\ pc' = "rootIssue"
               /\ issueReqs' = Append(issueReqs, parseYouTrackUrl(url)[1].issueId)
  /\ UNCHANGED <<commentReqs, responses, mainIssue, result, frontier, i, linkedIssue,
                 llmCalls, chatMessages, dataCorrelations, response, llmReply>>
  /\ UNCHANGED <<histVars, corrVars, pageVars, exportVars>>

\* mutant of RootIssueDone: a null root issue is not checked
RootIssueDoneUnchecked(rl, fs) ==
  /\ pc = "rootIssue"
  /\ LET issueId == parseYouTrackUrl(req)[1].issueId
     IN  \E r \in IssueResponses(issueId, rl, fs) :
           /\ responses' = Append(responses,
                [for |-> "issue", at |-> 0, id |-> issueId, ok |-> r # <<>>, data |-> <<>>])
           /\ mainIssue' = IF r = <<>> THEN <<[idReadable |-> issueId, links |-> <<>>, fields |-> NoFields]>> ELSE r
           /\ commentReqs' = Append(commentReqs, issueId)
           /\ pc' = "rootComments"
           /\ status' = status
  /\ UNCHANGED <<req, issueReqs, result, frontier, i, linkedIssue, llmCalls, reqBody,
                 chatMessages, dataCorrelations, response, llmReply>>
  /\ UNCHANGED <<histVars, corrVars, pageVars, exportVars>>

\* fetchIssue of the root returns: null throws and the handler answers 500
RootIssueDone(rl, fs) ==
  /\ pc = "rootIssue"
  /\ LET issueId == parseYouTrackUrl(req)[1].issueId
     IN  \E r \in IssueResponses(issueId, rl, fs) :
           /\ responses' = Append(responses,
                [for |-> "issue", at |-> 0, id |-> issueId, ok |-> r # <<>>, data |-> <<>>])
           /\ IF r = <<>>
              THEN /\ status' = 500
                   /\ pc' = "done"
                   /\ UNCHANGED <<mainIssue, commentReqs>>
              ELSE /\ mainIssue' = r
                   /\ commentReqs' = Append(commentReqs, issueId)
                   /\ pc' = "rootComments"
                   /\ status' = status
  /\ UNCHANGED <<req, issueReqs, result, frontier, i, linkedIssue, llmCalls, reqBody,
                 chatMessages, dataCorrelations, response, llmReply>>
  /\ UNCHANGED <<histVars, corrVars, pageVars, exportVars>>

\* fetchComments of the root returns: build parent, result and the frontier
RootCommentsDone(cm) ==
  /\ pc = "rootComments"
  /\ LET issueId == parseYouTrackUrl(req)[1].issueId
     IN  \E c \in CommentResponses(cm) :
           LET parent == parseIssueData(mainIssue[1], fetchComments(c))
               items == uniqueLinkedItems(parent)
           IN  /\ responses' = Append(responses,
                    [for |-> "comments", at |-> 0, id |-> issueId, ok |-> c.ok, data |-> c.data])
               /\ result' =
                    AfterItem([baseUrl |-> parseYouTrackUrl(req)[1].baseUrl,
                               parent |-> parent,
                               children |-> <<>>,
                               relatedItems |-> parent.relatedItems,
                               dependencies |-> parent.dependencies,
                               allComments |->
                                 IF Len(parent.comments) > 0
                                 THEN << [issueId |-> parent.id, comments |-> parent.comments] >>
                                 ELSE <<>>,
                               stats |-> NoStats],
                              1, items)
               /\ frontier' = items
               /\ i' = 1
               /\ LoopHead(1, items)
  /\ UNCHANGED <<req, status, commentReqs, mainIssue, linkedIssue, reqBody, response, llmReply>>
  /\ UNCHANGED <<histVars, corrVars, exportVars>>

\* mutant of LinkedIssueDone: a null linked issue throws, as the root's does
LinkedIssueDoneThrows(cl, fs) ==
  /\ pc = "linkedIssue"
  /\ \E r \in IssueResponses(frontier[i].id, cl, fs) :
       /\ responses' = Append(responses,
            [for |-> "issue", at |-> i, id |-> frontier[i].id, ok |-> r # <<>>, data |-> <<>>])
       /\ IF r = <<>>
          THEN /\ status' = 500
               /\ pc' = "done"
               /\ UNCHANGED <<linkedIssue, commentReqs>>
          ELSE /\ linkedIssue' = r
               /\ commentReqs' = Append(commentReqs, frontier[i].id)
               /\ pc' = "linkedComments"
               /\ status' = status
  /\ UNCHANGED <<req, mainIssue, frontier, i, issueReqs,
                 llmCalls, result, reqBody, chatMessages, dataCorrelations, response, llmReply>>
  /\ UNCHANGED <<histVars, corrVars, pageVars, exportVars>>

\* mutant of LinkedIssueDone: the comments of a linked issue are requested
\* whether or not its fetch returned an issue
LinkedIssueDoneCommentsAnyway(cl, fs) ==
  /\ pc = "linkedIssue"
  /\ \E r \in IssueResponses(frontier[i].id, cl, fs) :
       /\ responses' = Append(responses,
            [for |-> "issue", at |-> i, id |-> frontier[i].id, ok |-> r # <<>>, data |-> <<>>])
       /\ linkedIssue' = IF r = <<>> THEN <<[idReadable |-> frontier[i].id, links |-> <<>>, fields |-> NoFields]>> ELSE r
       /\ commentReqs' = Append(commentReqs, frontier[i].id)
       /\ pc' = "linkedComments"
  /\ UNCHANGED <<i, issueReqs, llmCalls, result, chatMessages, dataCorrelations>>
  /\ UNCHANGED pageVars
  /\ UNCHANGED <<req, status, mainIssue, frontier, reqBody, response, llmReply>>
  /\ UNCHANGED <<histVars, corrVars, exportVars>>

\* fetchIssue of frontier[i] returns: null skips the item
LinkedIssueDone(cl, fs) ==
  /\ pc = "linkedIssue"
  /\ \E r \in IssueResponses(frontier[i].id, cl, fs) :
       /\ responses' = Append(responses,
            [for |-> "issue", at |-> i, id |-> frontier[i].id, ok |-> r # <<>>, data |-> <<>>])
       /\ IF r = <<>>
          THEN /\ i' = i + 1
               /\ LoopHead(i + 1, frontier)
               /\ result' = AfterItem(result, i + 1, frontier)
               /\ UNCHANGED <<linkedIssue, commentReqs>>
          ELSE /\ linkedIssue' = r
               /\ commentReqs' = Append(commentReqs, frontier[i].id)
               /\ pc' = "linkedComments"
               /\ UNCHANGED <<i, issueReqs, llmCalls, result, chatMessages,
                              dataCorrelations>>
               /\ UNCHANGED pageVars
  /\ UNCHANGED <<req, status, mainIssue, frontier, reqBody, response, llmReply>>
  /\ UNCHANGED <<histVars, corrVars, exportVars>>

\* mutant of LinkedCommentsDone: a ticket whose comment fetch failed is skipped
LinkedCommentsDoneSkips(cm) ==
  /\ pc = "linkedComments"
  /\ \E c \in CommentResponses(cm) :
       LET linked == parseIssueData(linkedIssue[1], fetchComments(c))
           merged == MergeDeps([deps |-> result.dependencies, own |-> <<>>],
                               linked.dependencies, linked.id, result.parent.id)
           child == [linked EXCEPT !.linkTypeToParent = frontier[i].linkType,
                                   !.dependencies = merged.own]
       IN  /\ responses' = Append(responses,
                [for |-> "comments", at |-> i, id |-> frontier[i].id, ok |-> c.ok, data |-> c.data])
           /\ result' =
                AfterItem(
                  [result EXCEPT
                     !.children = IF c.ok THEN Append(@, child) ELSE @,
                     !.allComments =
                        IF Len(linked.comments) > 0
                        THEN Append(@, [issueId |-> linked.id, comments |-> linked.comments])
                        ELSE @,
                     !.dependencies = IF c.ok THEN merged.deps ELSE @,
                     !.parent.dependencies = IF c.ok THEN merged.deps ELSE @],
                  i + 1, frontier)
           /\ i' = i + 1
           /\ linkedIssue' = <<>>
           /\ LoopHead(i + 1, frontier)
  /\ UNCHANGED <<req, status, commentReqs, mainIssue, frontier, reqBody, response, llmReply>>
  /\ UNCHANGED <<histVars, corrVars, exportVars>>

\* fetchComments of frontier[i] returns: normalize, append the child, merge
LinkedCommentsDone(cm) ==
  /\ pc = "linkedComments"
  /\ \E c \in CommentResponses(cm) :
       LET linked == parseIssueData(linkedIssue[1], fetchComments(c))
           merged == MergeDeps([deps |-> result.dependencies, own |-> <<>>],
                               linked.dependencies, linked.id, result.parent.id)
           child == [linked EXCEPT !.linkTypeToParent = frontier[i].linkType,
                                   !.dependencies = merged.own]
       IN  /\ responses' = Append(responses,
                [for |-> "comments", at |-> i, id |-> frontier[i].id, ok |-> c.ok, data |-> c.data])
           /\ result' =
                AfterItem(
                  [result EXCEPT
                     !.children = Append(@, child),
                     !.allComments =
                        IF Len(linked.comments) > 0
                        THEN Append(@, [issueId |-> linked.id, comments |-> linked.comments])
                        ELSE @,
                     !.dependencies = merged.deps,
                     !.parent.dependencies = merged.deps],
                  i + 1, frontier)
           /\ i' = i + 1
           /\ linkedIssue' = <<>>
           /\ LoopHead(i + 1, frontier)
  /\ UNCHANGED <<req, status, commentReqs, mainIssue, frontier, reqBody, response, llmReply>>
  /\ UNCHANGED <<histVars, corrVars, exportVars>>

\* anthropic.messages.create returns or throws; analyze() does not throw on an
\* unparsable reply; then addToHistory, which throws on a null analysis before
\* it changes the list, and the 200 response
LlmDone(rp, wr) ==
  /\ pc = "llm"
  /\ \E o \in LlmOutcomes(rp) :
       /\ llmReply' = <<o>>
       /\ IF ~o.ok \/ analyzeReply(o.text).json = "null"
          THEN /\ status' = 500
               /\ response' = response
               /\ UNCHANGED <<analysisHistory, historyFile, saveFailed, now, serial,
                              evicted, deleted>>
          ELSE /\ status' = 200
               /\ \E ok \in wr : HistoryAdd(analyzeReply(o.text), ok)
               /\ response' = <<[tickets |-> result,
                                 chatMessages |-> chatMessages,
                                 correlations |-> dataCorrelations,
                                 analysis |-> analyzeReply(o.text),
                                 historyId |-> now]>>
  /\ pc' = "done"
  /\ UNCHANGED <<req, issueReqs, commentReqs, responses, mainIssue, result, frontier,
                 i, linkedIssue, llmCalls, reqBody, chatMessages, dataCorrelations>>
  /\ UNCHANGED <<hpc, hstatus, deletes, deletedIds, hresp>>
  /\ UNCHANGED <<corrVars, pageVars, exportVars>>

NextCrawl(bd, rl, cl, cm, rp, wr, fs) ==
  \/ AnalyzeStart(bd)
  \/ RootIssueDone(rl, fs)
  \/ RootCommentsDone(cm)
  \/ LinkedIssueDone(cl, fs)
  \/ LinkedCommentsDone(cm)
  \/ LlmDone(rp, wr)

\* ------------------------------------------------------------------------
\* correlateChatsWithTickets: the call
\* ------------------------------------------------------------------------
InitCorrelate ==
  /\ corrPc = "called"
  /\ chatData \in ChatDatasets
  /\ msgIds = <<>>
  /\ correlations = NoCorrelations

CorrelateIdle ==
  /\ corrPc = "idle"
  /\ chatData = <<>>
  /\ msgIds = <<>>
  /\ correlations = NoCorrelations

\* the whole call: it has no await
Correlate ==
  /\ corrPc = "called"
  /\ \E randoms \in [1..Len(chatData) -> RandomTokens] :
       LET out == CorrelateFrom([c2t |-> <<>>, unlinked |-> <<>>, ids |-> <<>>],
                                chatData, randoms)
       IN  /\ correlations' = [ticketToChats |-> ticketMentions(chatData),
                               chatToTickets |-> out.c2t,
                               unlinkedChats |-> out.unlinked]
           /\ msgIds' = out.ids
  /\ corrPc' = "done"
  /\ UNCHANGED chatData
  /\ UNCHANGED <<crawlVars, histVars, pageVars, exportVars>>

\* ------------------------------------------------------------------------
\* fetchGoogleChatMessages(chatUrl): the page loop
\* ------------------------------------------------------------------------
\* a page: the number of messages in it and nextPageToken ("" when none)
PageResponses ==
  { [ok |-> TRUE, messages |-> n, nextPageToken |-> t] : n \in 0..1, t \in {"", "p1", "p2"} }
  \cup { [ok |-> FALSE, messages |-> 0, nextPageToken |-> ""] }

InitPages ==
  /\ pagePc = "called"
  /\ chatUrl \in ChatUrls
  /\ pageToken = ""
  /\ pageCount = 0
  /\ pageRequests = 0
  /\ fetched = 0
  /\ chatResult = "none"

PagesIdle ==
  /\ pagePc = "idle"
  /\ chatUrl = [wellFormed |-> FALSE, hasSpace |-> FALSE, key |-> ""]
  /\ pageToken = ""
  /\ pageCount = 0
  /\ pageRequests = 0
  /\ fetched = 0
  /\ chatResult = "none"

\* up to the first await: null for a URL that does not parse, else page 1
FetchChatStart ==
  /\ pagePc = "called"
  /\ IF parseGoogleChatUrl(chatUrl)
     THEN /\ pagePc' = "page"
          /\ pageRequests' = pageRequests + 1
          /\ chatResult' = chatResult
     ELSE /\ pagePc' = "done"
          /\ pageRequests' = pageRequests
          /\ chatResult' = "null"
  /\ UNCHANGED <<chatUrl, pageToken, pageCount, fetched>>
  /\ UNCHANGED <<crawlVars, histVars, corrVars, exportVars>>

\* mutant of Continues: the page limit is not enforced
ContinuesUnlimited(count, token) == token # ""

\* whether the do-while goes round again after a page
Continues(count, token) == ~(count >= maxPages) /\ token # ""

\* axios.get returns or throws: the rest of the loop body, then either the next
\* request or the code after the loop up to the return
PageDone ==
  /\ pagePc = "page"
  /\ pageRequests <= MaxPageRequests
  /\ \E r \in PageResponses :
       IF ~r.ok
       THEN /\ chatResult' = "null"
            /\ pagePc' = "done"
            /\ UNCHANGED <<pageToken, pageCount, pageRequests, fetched>>
       ELSE /\ fetched' = fetched + r.messages
            /\ pageToken' = r.nextPageToken
            /\ pageCount' = pageCount + 1
            /\ IF Continues(pageCount + 1, r.nextPageToken)
               THEN /\ pagePc' = "page"
                    /\ pageRequests' = pageRequests + 1
                    /\ chatResult' = chatResult
               ELSE /\ pagePc' = "done"
                    /\ pageRequests' = pageRequests
                    /\ chatResult' = "data"
  /\ UNCHANGED chatUrl
  /\ UNCHANGED <<crawlVars, histVars, corrVars, exportVars>>

\* mutant of ChatFetched: without chat data the request fails
ChatFetchedOrFails ==
  /\ pc = "chat"
  /\ pagePc = "done"
  /\ IF chatResult = "data"
     THEN ChatDataSet(ApiMessagesFetched(fetched))
     ELSE UNCHANGED <<chatMessages, dataCorrelations>>
  /\ pc' = IF chatResult = "data" THEN "llm" ELSE "done"
  /\ status' = IF chatResult = "data" THEN status ELSE 500
  /\ llmCalls' = IF chatResult = "data" THEN llmCalls + 1 ELSE llmCalls
  /\ UNCHANGED <<req, issueReqs, commentReqs, responses, mainIssue, result,
                 frontier, i, linkedIssue, reqBody, response, llmReply>>
  /\ UNCHANGED <<histVars, corrVars, pageVars, exportVars>>

\* the handler after fetchGoogleChatMessages returned, up to the model call
ChatFetched ==
  /\ pc = "chat"
  /\ pagePc = "done"
  /\ IF chatResult = "data"
     THEN ChatDataSet(ApiMessagesFetched(fetched))
     ELSE UNCHANGED <<chatMessages, dataCorrelations>>
  /\ pc' = "llm"
  /\ llmCalls' = llmCalls + 1
  /\ UNCHANGED <<req, status, issueReqs, commentReqs, responses, mainIssue, result,
                 frontier, i, linkedIssue, reqBody, response, llmReply>>
  /\ UNCHANGED <<histVars, corrVars, pageVars, exportVars>>

\* ------------------------------------------------------------------------
\* parseGoogleChatExport(chatText), line by line
\* ------------------------------------------------------------------------
InitExport ==
  /\ exportPc = "lines"
  /\ chatText \in ExportTexts
  /\ lineNo = 0
  /\ currentMessage = <<>>
  /\ exportMessages = <<>>

ExportIdle ==
  /\ exportPc = "idle"
  /\ chatText = <<>>
  /\ lineNo = 0
  /\ currentMessage = <<>>
  /\ exportMessages = <<>>

\* the callback of lines.forEach on the next line
ExportLineStep ==
  /\ exportPc = "lines"
  /\ lineNo < Len(chatText)
  /\ LET st == ExportLine([out |-> exportMessages, cur |-> currentMessage], chatText[lineNo + 1])
     IN  /\ exportMessages' = st.out
         /\ currentMessage' = st.cur
  /\ lineNo' = lineNo + 1
  /\ UNCHANGED <<exportPc, chatText>>
  /\ UNCHANGED <<crawlVars, histVars, corrVars, pageVars>>

\* the code after the loop
ExportEnd ==
  /\ exportPc = "lines"
  /\ lineNo = Len(chatText)
  /\ exportMessages' = ExportFlush([out |-> exportMessages, cur |-> currentMessage])
  /\ exportPc' = "done"
  /\ UNCHANGED <<chatText, lineNo, currentMessage>>
  /\ UNCHANGED <<crawlVars, histVars, corrVars, pageVars>>

\* ------------------------------------------------------------------------
\* Specifications
\* ------------------------------------------------------------------------
vars == <<crawlVars, histVars, corrVars, pageVars, exportVars>>

\* one Analyze request: the crawl over arbitrary link structures
Init == InitCrawl /\ HistoryIdle /\ CorrelateIdle /\ PagesIdle /\ ExportIdle

Next == NextCrawl({NoBody}, MaxRootLinks, MaxChildLinks, MaxCrawlComments, FewLlmTexts, {TRUE},
                  {NoFields})

Spec == Init /\ [][Next]_vars

\* one Analyze request: the crawl over arbitrary comment lists
NextComments ==
  NextCrawl({NoBody}, CMaxRootLinks, CMaxChildLinks, CMaxComments, FewLlmTexts, {TRUE}, {NoFields})

SpecComments == Init /\ [][NextComments]_vars

\* one Analyze request with chat input
NextAnalyze ==
  \/ NextCrawl(Bodies, AMaxRootLinks, 0, 0, FewLlmTexts, {TRUE}, {NoFields})
  \/ FetchChatStart
  \/ PageDone
  \/ ChatFetched

InitAnalyze == InitCrawl /\ HistoryIdle /\ CorrelateIdle /\ PagesIdle /\ ExportIdle

SpecAnalyze == InitAnalyze /\ [][NextAnalyze]_vars

\* one Analyze request and any reply of the model
NextReply == NextCrawl({NoBody}, AMaxRootLinks, 0, 0, LlmTexts, WriteOutcomes, {NoFields})

InitReply == InitCrawl /\ HistoryIdle /\ CorrelateIdle /\ PagesIdle /\ ExportIdle

SpecReply == InitReply /\ [][NextReply]_vars

\* one Analyze request: the crawl over issues with state, type and assignee
NextStats ==
  NextCrawl({NoBody}, SMaxRootLinks, SMaxChildLinks, SMaxComments, FewLlmTexts, {TRUE},
            IssueFields)

InitStats == InitCrawl /\ HistoryIdle /\ CorrelateIdle /\ PagesIdle /\ ExportIdle

SpecStats == InitStats /\ [][NextStats]_vars

\* one call of correlateChatsWithTickets on an arbitrary chat dataset
NextCorrelate == Correlate

InitCorrelateCall == InitCrawl /\ HistoryIdle /\ InitCorrelate /\ PagesIdle /\ ExportIdle

SpecCorrelate == InitCorrelateCall /\ [][NextCorrelate]_vars

\* one call of fetchGoogleChatMessages; every request is answered or fails
NextPages == FetchChatStart \/ PageDone

InitPagesCall == InitCrawl /\ HistoryIdle /\ CorrelateIdle /\ InitPages /\ ExportIdle

SpecPages == InitPagesCall /\ [][NextPages]_vars /\ WF_vars(NextPages)

\* concurrent Analyze requests and delete requests on a history loaded at start-up
InitHistoryServer == InitCrawl /\ InitHistory /\ CorrelateIdle /\ PagesIdle /\ ExportIdle

SpecHistory == InitHistoryServer /\ [][NextHistory]_vars

\* the same server with Ask, history list and history get requests as well
NextHistoryApi == NextHistory \/ GetHistory \/ ListHistory \/ Ask

InitHistoryApi == InitCrawl /\ InitHistory /\ CorrelateIdle /\ PagesIdle /\ ExportIdle

SpecHistoryApi == InitHistoryApi /\ [][NextHistoryApi]_vars

\* one call of parseGoogleChatExport on an arbitrary text
NextExport == ExportLineStep \/ ExportEnd

InitExportCall == InitCrawl /\ HistoryIdle /\ CorrelateIdle /\ PagesIdle /\ InitExport

SpecExport == InitExportCall /\ [][NextExport]_vars

\* ------------------------------------------------------------------------
\* Reading the state
\* ------------------------------------------------------------------------
\* crawlYouTrack has returned its graph
Returned == pc \in {"chat", "llm"} \/ (pc = "done" /\ llmCalls = 1)

Count(s, x) == Cardinality({ k \in 1..Len(s) : s[k] = x })

NoDuplicateIds(s) == \A a, b \in 1..Len(s) : a # b => s[a].id # s[b].id

\* the responses to the issue fetches of frontier items, and those that succeeded
LinkedIssueResponses == SelectSeq(responses, LAMBDA r : r.for = "issue" /\ r.at > 0)
LinkedIssueOk == SelectSeq(LinkedIssueResponses, LAMBDA r : r.ok)
LinkedIssueFailed == SelectSeq(LinkedIssueResponses, LAMBDA r : ~r.ok)
CommentResponsesSeen == SelectSeq(responses, LAMBDA r : r.for = "comments")

\* ids the root issue links as subtask (outward) or as related item
RootLinkIds ==
  IF mainIssue = <<>> THEN {}
  ELSE { x \in Ids : \E k \in 1..Len(mainIssue[1].links) :
           LET l == mainIssue[1].links[k]
           IN  /\ \E j \in 1..Len(l.issues) : l.issues[j] = x
               /\ l.linkType.name # "Depend"
               /\ ~(l.linkType.name = "Subtask" /\ l.direction = "INWARD") }

\* C1: no two entries of the graph's children list have the same id, whatever
\* the root links and whichever linked fetches succeed or fail.
C1_ChildrenUniqueById == NoDuplicateIds(result.children)

\* C1 witness: the root declared the same id twice (two links, one frontier
\* item) and the crawl returned with that ticket as its one child.
C1_Witness ==
  /\ Returned
  /\ Len(allLinkedItems(result.parent)) = 2
  /\ Len(frontier) = 1
  /\ Len(result.children) = 1

\* C2: the graph-level dependencies list of a returned graph holds no two
\* entries with the same id and no entry with the root's id, the root's own
\* dependencies included.
C2_DependenciesUniqueNoRoot ==
  Returned =>
    /\ NoDuplicateIds(result.dependencies)
    /\ result.parent.id \notin SeqIds(result.dependencies)

\* C3: within one crawl every ticket id, the root's included, is requested at
\* most once for its issue and at most once for its comments.
C3_EachTicketRequestedOnce ==
  \A x \in Ids : Count(issueReqs, x) <= 1 /\ Count(commentReqs, x) <= 1

\* C4: the crawl is one hop.  Every id requested other than the root's, and
\* every child, is a subtask or related link of the root; a graph-level
\* dependency is a Depend link of the root or of the child named as its source.
C4_OneHop ==
  /\ \A k \in 1..Len(issueReqs) :
       issueReqs[k] # RootId => issueReqs[k] \in RootLinkIds
  /\ \A k \in 1..Len(commentReqs) :
       commentReqs[k] # RootId => commentReqs[k] \in RootLinkIds
  /\ \A k \in 1..Len(result.children) : result.children[k].id \in RootLinkIds
  /\ \A k \in 1..Len(result.dependencies) :
       LET d == result.dependencies[k]
       IN  /\ d.linkType = "Depend"
           /\ \/ d.sourceIssue = ""
              \/ \E c \in 1..Len(result.children) :
                   /\ result.children[c].id = d.sourceIssue
                   /\ \E j \in 1..Len(result.children[c].dependencies) :
                        result.children[c].dependencies[j] = d

\* C4 witness: a crawled child links, as subtask or related item, a ticket the
\* root does not link; the crawl returned without requesting that ticket.
C4_Witness ==
  /\ Returned
  /\ \E c \in 1..Len(result.children) :
       \E x \in SeqIds(result.children[c].children) \cup SeqIds(result.children[c].relatedItems) :
          /\ x \notin RootLinkIds \cup {RootId}
          /\ Count(issueReqs, x) = 0

\* C5: a failed issue fetch of a linked item does not abort the crawl: the item
\* is left out of children, no comments are requested for it, it adds no
\* allComments entry and no dependency, every frontier item is still fetched and
\* the graph is returned with exactly the items whose fetch succeeded, in order.
C5_LinkedFailureSkipsItem ==
  /\ \A k \in 1..Len(LinkedIssueFailed) :
       LET f == LinkedIssueFailed[k]
       IN  /\ ~(pc = "done" /\ llmCalls = 0)
           /\ f.id \notin SeqIds(result.children)
           /\ \A j \in 1..Len(CommentResponsesSeen) : CommentResponsesSeen[j].at # f.at
           /\ \A j \in 1..Len(result.dependencies) :
                result.dependencies[j].sourceIssue # f.id
           /\ f.id # result.parent.id =>
                \A j \in 1..Len(result.allComments) : result.allComments[j].issueId # f.id
  /\ Returned =>
       /\ Len(LinkedIssueResponses) = Len(frontier)
       /\ Len(result.children) = Len(LinkedIssueOk)
       /\ \A j \in 1..Len(result.children) : result.children[j].id = LinkedIssueOk[j].id

\* C5 witness: the first of two frontier items failed, the second was fetched
\* and is the only child of the returned graph.
C5_Witness ==
  /\ Returned
  /\ Len(frontier) = 2
  /\ Len(LinkedIssueResponses) = 2
  /\ ~LinkedIssueResponses[1].ok
  /\ LinkedIssueResponses[2].ok
  /\ Len(result.children) = 1
  /\ result.children[1].id = frontier[2].id

\* the response to the root's issue fetch failed
RootFetchFailed ==
  \E k \in 1..Len(responses) :
     responses[k].for = "issue" /\ responses[k].at = 0 /\ ~responses[k].ok

\* C6: fatal errors abort the analysis.  A URL that is no issue URL is answered
\* with a client error and no tracker request; a failed root fetch ends the
\* request with no linked-issue and no comment request; in both cases no LLM
\* call is made and no history entry is added.
C6_FatalErrorsAbort ==
  /\ (pc # "idle" /\ UrlMatches(req) = {}) =>
       /\ pc = "done"
       /\ status = 400
       /\ issueReqs = <<>>
       /\ commentReqs = <<>>
       /\ llmCalls = 0
       /\ analysisHistory = <<>>
  /\ RootFetchFailed =>
       /\ pc = "done"
       /\ status = 500
       /\ issueReqs = <<RootId>>
       /\ commentReqs = <<>>
       /\ llmCalls = 0
       /\ analysisHistory = <<>>

\* C6 witness: the root issue could not be fetched and the request has ended.
C6_Witness == RootFetchFailed /\ pc = "done" /\ status = 500

\* the ticket normalized from the comment response of frontier position at
\* (0: the root)
HasTicketFor(at) ==
  IF at = 0 THEN result.parent.id # ""
  ELSE \E j \in 1..Len(result.children) : LinkedIssueOk[j].at = at

TicketFor(at) ==
  IF at = 0 THEN result.parent
  ELSE result.children[CHOOSE j \in 1..Len(result.children) : LinkedIssueOk[j].at = at]

\* the tickets of the graph, root first
Tickets ==
  IF result.parent.id = "" THEN <<>> ELSE <<result.parent>> \o result.children

\* C7: a failed comment fetch is not fatal and does not drop the ticket: the
\* ticket is normalized with no comments, a linked ticket is in children, and
\* allComments holds entries for exactly the tickets that have comments.
C7_CommentFailureKeepsTicket ==
  \A k \in 1..Len(CommentResponsesSeen) :
     LET r == CommentResponsesSeen[k]
     IN  ~r.ok =>
           /\ ~(pc = "done" /\ llmCalls = 0)
           /\ HasTicketFor(r.at)
           /\ TicketFor(r.at).id = r.id
           /\ TicketFor(r.at).comments = <<>>
           /\ LET kept == SelectSeq(Tickets, LAMBDA t : t.comments # <<>>)
              IN  result.allComments =
                    [j \in 1..Len(kept) |->
                       [issueId |-> kept[j].id, comments |-> kept[j].comments]]

\* C7 witness: the root has comments, the comment fetch of the linked ticket
\* failed, and the returned graph has that ticket as child and one allComments
\* entry, the root's.
C7_Witness ==
  /\ Returned
  /\ Len(result.children) = 1
  /\ Len(CommentResponsesSeen) = 2
  /\ CommentResponsesSeen[1].ok
  /\ ~CommentResponsesSeen[2].ok
  /\ Len(result.allComments) = 1
  /\ result.parent.comments # <<>>

Pos(data, id) == CHOOSE j \in 1..Len(data) : data[j].id = id

\* cs is data without its deleted comments, in the order of data
KeepsUndeleted(cs, data) ==
  /\ \A k \in 1..Len(cs) :
       \E j \in 1..Len(data) : data[j].id = cs[k].id /\ ~data[j].deleted
  /\ \A j \in 1..Len(data) :
       ~data[j].deleted => \E k \in 1..Len(cs) : cs[k].id = data[j].id
  /\ \A k1, k2 \in 1..Len(cs) :
       k1 < k2 => Pos(data, cs[k1].id) < Pos(data, cs[k2].id)

KeyOfMessage(k) ==
  IF msgIds[k] # "" THEN msgIds[k]
  ELSE IF chatData[k].name # "" THEN chatData[k].name
  ELSE chatData[k].timestamp

HasEntry(k) == KeyOfMessage(k) \in DOMAIN correlations.chatToTickets

IsUnlinked(k) ==
  \E j \in 1..Len(correlations.unlinkedChats) : correlations.unlinkedChats[j] = chatData[k]

\* C9 as stated: every message is in exactly one of two classes: its message
\* key is a key of chatToTickets, or it is a member of unlinkedChats.
C9_KeyOrUnlinked ==
  corrPc = "done" =>
    \A k \in 1..Len(chatData) : HasEntry(k) # IsUnlinked(k)

\* C9 as amended: every message is in exactly one of two classes: it has at
\* least one ticket id, and then its message key is a key of chatToTickets and
\* it is no member of unlinkedChats; or it has none, and then it is a member of
\* unlinkedChats exactly once (its key may still be the key of another message's entry).
C9_MentionsOrUnlinked ==
  corrPc = "done" =>
    /\ Len(msgIds) = Len(chatData)
    /\ \A k \in 1..Len(chatData) :
         IF Len(chatData[k].ticketIds) > 0
         THEN HasEntry(k) /\ ~IsUnlinked(k)
         ELSE IsUnlinked(k)
    /\ Len(correlations.unlinkedChats) =
         Cardinality({ k \in 1..Len(chatData) : Len(chatData[k].ticketIds) = 0 })

\* C9 witness: two messages of an export carry the same timestamp, one with a
\* mention and one without; the second is unlinked although its key has an entry.
C9_Witness ==
  /\ corrPc = "done"
  /\ \E k, m \in 1..Len(chatData) :
       /\ Len(chatData[k].ticketIds) > 0
       /\ Len(chatData[m].ticketIds) = 0
       /\ chatData[m].timestamp # ""
       /\ chatData[m].timestamp = chatData[k].timestamp
       /\ HasEntry(m)
       /\ IsUnlinked(m)

\* C10: fetchGoogleChatMessages terminates whatever the chat service answers:
\* it makes at most maxPages page requests, and a response that carries no
\* continuation token is its last.
C10_PageLoopTerminates ==
  /\ <>(pagePc = "done")
  /\ [](pageRequests <= maxPages)
  /\ [][ (pagePc = "page" /\ pageToken' = "") => pagePc' = "done" ]_vars

\* C10 witness: the tenth response still carried a token and the call returned
\* its dataset after ten requests.
C10_Witness ==
  /\ pagePc = "done"
  /\ chatResult = "data"
  /\ pageRequests = maxPages
  /\ pageCount = maxPages
  /\ pageToken # ""

Added == serial' = serial + 1

\* the entries of the list are in the order of their addition, latest first
LatestFirst(history) ==
  \A k \in 1..(Len(history) - 1) : history[k].n > history[k + 1].n

\* C12: the list is ordered most-recent-first: an addition puts the new entry
\* at the front and keeps the order of the others, and when the addition
\* exceeds the capacity the entry removed is the one added earliest among
\* those present, never the new one.
C12_MostRecentFirst ==
  /\ [] LatestFirst(analysisHistory)
  /\ [][Added =>
          /\ analysisHistory'[1].n = serial'
          /\ IF Len(analysisHistory) < MAX_HISTORY
             THEN Tail(analysisHistory') = analysisHistory
             ELSE /\ Tail(analysisHistory')
                       = SubSeq(analysisHistory, 1, Len(analysisHistory) - 1)
                  /\ \A k \in 1..Len(analysisHistory') :
                       analysisHistory[Len(analysisHistory)].n < analysisHistory'[k].n]_vars

\* an addition to a full list has put its entry at the front
C12_Witness ==
  /\ evicted # {}
  /\ deleted = {}
  /\ analysisHistory[1].n = serial

Kind(rawLine) ==
  IF Trim(rawLine) = <<>> THEN "blank"
  ELSE IF matchTimePattern(Trim(rawLine)) # <<>> THEN "A"
  ELSE IF matchLegacyPattern(Trim(rawLine)) # <<>> THEN "B"
  ELSE "text"

HeaderLines(text) == { k \in 1..Len(text) : Kind(text[k]) \in {"A", "B"} }

\* the header line after line k, Len(text) + 1 when there is none
NextHeader(text, k) == Min({ j \in HeaderLines(text) : j > k } \cup {Len(text) + 1})

\* the continuation lines that follow header line k, trimmed
BodyLines(text, k) ==
  LET seg == SelectSeq(SubSeq(text, k + 1, NextHeader(text, k) - 1),
                       LAMBDA l : Kind(l) = "text")
  IN  [j \in 1..Len(seg) |-> Trim(seg[j])]

\* the text on header line k itself
InlineText(text, k) ==
  IF Kind(text[k]) = "B" THEN <<matchLegacyPattern(Trim(text[k]))[1].text>> ELSE <<>>

\* header line k is a Header A line without body whose next header is a Header A
DroppedHeader(text, k) ==
  /\ Kind(text[k]) = "A"
  /\ BodyLines(text, k) = <<>>
  /\ NextHeader(text, k) <= Len(text)
  /\ Kind(text[NextHeader(text, k)]) = "A"

\* the header lines whose message is pushed or flushed, in input order
KeptHeaders(text) ==
  SelectSeq([k \in 1..Len(text) |-> k],
            LAMBDA k : k \in HeaderLines(text) /\ ~DroppedHeader(text, k))

\* header lines without body that are kept all the same
EmptyKept(text) ==
  { k \in HeaderLines(text) :
      /\ Kind(text[k]) = "A"
      /\ BodyLines(text, k) = <<>>
      /\ ~DroppedHeader(text, k) }

OpenMessagePushed ==
  exportMessages' = IF currentMessage # <<>>
                    THEN Append(exportMessages, currentMessage[1])
                    ELSE exportMessages

\* C19: a Header A line pushes the open message only if its text is not empty,
\* a Header B line pushes the open message whatever its text; so a Header A
\* message without body is dropped when the next line is a Header A line and
\* kept with empty text when the next line is a Header B line.
C19_HeaderPushAsymmetry ==
  /\ [][lineNo' = lineNo + 1 =>
          /\ Kind(chatText[lineNo']) = "A" =>
               IF currentMessage # <<>> /\ currentMessage[1].text = <<>>
               THEN exportMessages' = exportMessages
               ELSE OpenMessagePushed
          /\ Kind(chatText[lineNo']) = "B" => OpenMessagePushed]_vars
  /\ [] (exportPc = "done" =>
          /\ Len(exportMessages)
               = Cardinality(HeaderLines(chatText))
                 - Cardinality({ k \in HeaderLines(chatText) : DroppedHeader(chatText, k) })
          /\ Cardinality({ j \in 1..Len(exportMessages) : exportMessages[j].text = <<>> })
               = Cardinality(EmptyKept(chatText)))

\* the text had a bodiless Header A line before a Header A line, and another
\* before a Header B line: one message was dropped, one kept with empty text
C19_Witness ==
  /\ exportPc = "done"
  /\ \E k \in HeaderLines(chatText) : DroppedHeader(chatText, k)
  /\ \E k \in EmptyKept(chatText) :
       /\ NextHeader(chatText, k) <= Len(chatText)
       /\ Kind(chatText[NextHeader(chatText, k)]) = "B"
  /\ \E j \in 1..Len(exportMessages) : exportMessages[j].text = <<>>

\* the messages are those of the kept header lines, in input order, each with
\* the text body(k) gives
MessagesAre(body(_)) ==
  LET kept == KeptHeaders(chatText)
  IN  /\ Len(exportMessages) = Len(kept)
      /\ \A j \in 1..Len(kept) : exportMessages[j].text = body(kept[j])

ContinuationOnly(k) == BodyLines(chatText, k)

InlineThenContinuation(k) == InlineText(chatText, k) \o BodyLines(chatText, k)

\* C20 as stated: after the flush at end of input the messages are, in input
\* order, those of the header lines pushed or flushed, each with the
\* newline-joined continuation lines that followed its header as text.
C20_TextIsContinuationLines ==
  exportPc = "done" => MessagesAre(ContinuationOnly)

\* C20, amended: the text of a message is the inline text of its header line
\* (Header B only) followed by the continuation lines, newline-joined; lines
\* before the first header belong to no message.
C20_TextIsInlineAndContinuationLines ==
  exportPc = "done" => MessagesAre(InlineThenContinuation)

\* a Header B message with inline text and continuation lines was flushed, and
\* the text began with a line that belongs to no message
C20_Witness ==
  /\ exportPc = "done"
  /\ chatText # <<>>
  /\ Kind(chatText[1]) = "text"
  /\ exportMessages # <<>>
  /\ Len(exportMessages[Len(exportMessages)].text) >= 2
  /\ Kind(chatText[KeptHeaders(chatText)[Len(exportMessages)]]) = "B"

\* ------------------------------------------------------------------------
\* The Analyze request: chat input and the reply of the model
\* ------------------------------------------------------------------------
BothSupplied == reqBody.chatExport # <<>> /\ reqBody.chatUrl # <<>>

\* the handler is past its chat input
PastChatInput == pc = "llm" \/ (pc = "done" /\ llmCalls = 1)

UsesExportOnly ==
  /\ pagePc = "idle"
  /\ pageRequests = 0
  /\ PastChatInput => chatMessages = <<parseGoogleChatExport(reqBody.chatExport[1])>>

\* C15 as stated: when a request supplies both export text and a chat URL, the
\* chat dataset is the one parsed from the export text and no request is made
\* to the chat service.
C15_ExportTakesPrecedence == BothSupplied => UsesExportOnly

\* C15, amended: the same, for an export text that is not blank; with a blank
\* export text the chat URL is used.
C15_NonBlankExportTakesPrecedence ==
  BothSupplied =>
    IF IsBlankText(reqBody.chatExport[1])
    THEN /\ PastChatInput => pagePc = "done"
         /\ chatMessages # <<>> => chatResult = "data"
    ELSE UsesExportOnly

\* a request with an export text of messages and a chat URL that parses was
\* answered, with the parsed dataset and without a page request
C15_Witness ==
  /\ BothSupplied
  /\ ~IsBlankText(reqBody.chatExport[1])
  /\ parseGoogleChatUrl(reqBody.chatUrl[1])
  /\ status = 200
  /\ chatMessages # <<>>
  /\ chatMessages[1] # <<>>
  /\ pageRequests = 0

\* fetchGoogleChatMessages was called and returned null
ChatReturnedNull == pagePc = "done" /\ chatResult = "null"

\* C16: a chat URL that does not parse, or a page request that fails, makes
\* fetchGoogleChatMessages return null; the request goes on to the model call
\* without chatMessages and correlations, fails only if the model call does,
\* and otherwise answers 200 with the graph of the crawl and adds its entry.
C16_ChatIsOptional ==
  /\ [] (pagePc = "done" /\ ~parseGoogleChatUrl(chatUrl) =>
           ChatReturnedNull /\ pageRequests = 0)
  /\ [][pagePc = "page" /\ pagePc' = "done" /\ pageCount' = pageCount =>
          chatResult' = "null"]_vars
  /\ [][pc = "chat" /\ pc' # "chat" /\ ChatReturnedNull =>
          pc' = "llm" /\ status' = 0 /\ llmCalls' = 1]_vars
  /\ [] (ChatReturnedNull /\ pc = "done" =>
           /\ chatMessages = <<>>
           /\ dataCorrelations = <<>>
           /\ llmReply # <<>>
           /\ IF llmReply[1].ok
              THEN /\ status = 200
                   /\ response # <<>>
                   /\ response[1].tickets = result
                   /\ response[1].chatMessages = <<>>
                   /\ response[1].correlations = <<>>
                   /\ Len(analysisHistory) = 1
                   /\ analysisHistory[1].id = response[1].historyId
              ELSE status = 500)

\* a request whose chat page request failed after a first page was answered
\* 200, with a linked ticket in its graph
C16_Witness ==
  /\ ChatReturnedNull
  /\ pageCount >= 1
  /\ pc = "done"
  /\ status = 200
  /\ Len(result.children) >= 1
  /\ analysisHistory # <<>>

\* a request whose chat URL does not parse was answered 200
C16_WitnessMalformed ==
  /\ ChatReturnedNull
  /\ pageRequests = 0
  /\ status = 200

\* JSON.parse throws on what analyze takes from the reply
Unparsable(txt) == JSONparse(Trim(jsonStrOf(txt))) = <<>>

\* C17: when the reply of the model cannot be parsed as JSON the request does
\* not fail: the analysis is the reply text under raw, the response carries the
\* graph of the crawl, and one history entry is added.
C17_UnparsableReplyFallsBack ==
  (pc = "done" /\ llmReply # <<>> /\ llmReply[1].ok /\ Unparsable(llmReply[1].text)) =>
    /\ status = 200
    /\ response # <<>>
    /\ response[1].analysis = [raw |-> <<llmReply[1].text>>, json |-> "none"]
    /\ response[1].tickets = result
    /\ Len(analysisHistory) = 1
    /\ analysisHistory[1].analysis = response[1].analysis

\* the reply held braces around something that is not JSON, and the request
\* was answered with a linked ticket in its graph
C17_Witness ==
  /\ pc = "done"
  /\ llmReply # <<>>
  /\ llmReply[1].ok
  /\ Unparsable(llmReply[1].text)
  /\ \E k \in 1..Len(llmReply[1].text) : llmReply[1].text[k] = "{"
  /\ Len(result.children) >= 1
  /\ status = 200

\* a list without two equal entries
NoDuplicates(list) == \A j, k \in 1..Len(list) : list[j] = list[k] => j = k

\* the identifiers found in the text of a message, once each, in order of
\* first appearance
RECURSIVE FirstMentions(_)
FirstMentions(text) ==
  IF text = <<>> THEN <<>>
  ELSE pushNew(FirstMentions(SubSeq(text, 1, Len(text) - 1)), ticketIdsIn(text[Len(text)]))

\* C21: every message of parseGoogleChatExport has a ticketIds list without
\* duplicates, in order of first appearance, whether the identifiers come from
\* the inline body of a legacy header line or from continuation lines.
C21_TicketIdsDeduplicated ==
  exportPc = "done" =>
    \A k \in 1..Len(exportMessages) :
      /\ NoDuplicates(exportMessages[k].ticketIds)
      /\ exportMessages[k].ticketIds = FirstMentions(exportMessages[k].text)

\* the dataset is one fetchGoogleChatMessages built
FromApi(messages) == \A k \in 1..Len(messages) : messages[k].timestamp = ""

\* the mentions of ticketId with one entry for each message that mentions it
MentioningMessages(messages, ticketId) ==
  LET hit == SelectSeq(messages,
                       LAMBDA msg : \E j \in 1..Len(msg.ticketIds) : msg.ticketIds[j] = ticketId)
  IN  [k \in 1..Len(hit) |-> [name |-> hit[k].name, timestamp |-> hit[k].timestamp]]

\* C22: in the API chat variant a message that mentions a ticket identifier
\* more than once contributes exactly one entry to ticketMentions for that
\* identifier, and the entries of each identifier follow message order.
C22_OneMentionPerMessage ==
  (corrPc = "done" /\ FromApi(chatData)) =>
    \A t \in DOMAIN correlations.ticketToChats :
      correlations.ticketToChats[t] = MentioningMessages(chatData, t)

\* the messages with at least one mention whose key is key, in message order
Claimants(key) ==
  { k \in 1..Len(chatData) : Len(chatData[k].ticketIds) > 0 /\ msgIds[k] = key }

\* C23: chatToTickets is first-write-wins per key: its keys are the keys of the
\* messages with at least one mention, and the value of a key is the ticketIds
\* list of the first message, in message order, that has that key and a
\* mention; later messages with the same key do not change it.
C23_FirstWriteWins ==
  corrPc = "done" =>
    /\ DOMAIN correlations.chatToTickets =
         { msgIds[k] : k \in { j \in 1..Len(chatData) : Len(chatData[j].ticketIds) > 0 } }
    /\ \A key \in DOMAIN correlations.chatToTickets :
         correlations.chatToTickets[key] = chatData[Min(Claimants(key))].ticketIds

\* two messages without name and timestamp, with different mentions, drew the
\* same random token: the entry of the token is the list of the first
C23_Witness ==
  /\ corrPc = "done"
  /\ \E key \in DOMAIN correlations.chatToTickets :
       \E k, m \in Claimants(key) :
         /\ k < m
         /\ chatData[k].ticketIds # chatData[m].ticketIds
         /\ correlations.chatToTickets[key] = chatData[k].ticketIds
         /\ chatData[k].timestamp = ""

\* the dependency links the root issue declares, as the normalizer lists them
RootDeclaredDependencies == parseIssueData(mainIssue[1], <<>>).dependencies

\* C24: the crawl does not mutate the root ticket of the normalizer: after
\* crawlYouTrack returns, the parent's own dependencies list holds exactly the
\* dependency links the root issue declares; what was discovered through
\* children is in the graph's dependencies list only.
C24_ParentDependenciesUntouched ==
  Returned => result.parent.dependencies = RootDeclaredDependencies

\* tracker requests that were sent and have not returned
Outstanding == Len(issueReqs) + Len(commentReqs) - Len(responses)

\* the frontier positions whose issue fetch was started
Started == 1..(Len(issueReqs) - 1)

IssueResponseAt(at) ==
  { k \in 1..Len(responses) : responses[k].for = "issue" /\ responses[k].at = at }

CommentResponseAt(at) ==
  { k \in 1..Len(responses) : responses[k].for = "comments" /\ responses[k].at = at }

\* C25: within one crawl at most one tracker request is outstanding at any
\* time and requests follow frontier order: the issue fetches after the root's
\* are those of the frontier items in order; a linked ticket's comments are
\* requested only after its issue fetch returned an issue; and the issue fetch
\* of an item starts only after every request of the items before it returned.
C25_OneRequestAtATime ==
  /\ Outstanding \in {0, 1}
  /\ \A k \in Started : k <= Len(frontier) /\ issueReqs[k + 1] = frontier[k].id
  /\ Len(commentReqs) <= 1 + Len(LinkedIssueOk)
  /\ \A k \in 2..Len(commentReqs) : commentReqs[k] = LinkedIssueOk[k - 1].id
  /\ \A k \in Started : \A j \in Started :
       j < k =>
         /\ IssueResponseAt(j) # {}
         /\ \A r \in IssueResponseAt(j) : responses[r].ok => CommentResponseAt(j) # {}

\* two frontier items were fetched, each with its comments, one request after
\* the other, and the crawl returned
C25_Witness ==
  /\ Returned
  /\ Len(frontier) = 2
  /\ Len(issueReqs) = 3
  /\ Len(commentReqs) = 3
  /\ Len(responses) = 6
  /\ [k \in 1..6 |-> responses[k].for] =
       <<"issue", "comments", "issue", "comments", "issue", "comments">>

\* the sum of the counts of a histogram
RECURSIVE Total(_)
Total(hist) ==
  IF DOMAIN hist = {} THEN 0
  ELSE LET v == CHOOSE x \in DOMAIN hist : TRUE
       IN  hist[v] + Total([x \in DOMAIN hist \ {v} |-> hist[x]])

\* comments held by allComments, counted one by one
CommentsHeld ==
  Cardinality({ <<k, j>> \in (1..Len(result.allComments)) \X (1..SMaxComments) :
                  j <= Len(result.allComments[k].comments) })

Candidates == result.parent.children \o result.parent.relatedItems

\* the position at which id is first a candidate
FirstAt(id) == Min({ k \in 1..Len(Candidates) : Candidates[k].id = id })

\* the tag of the candidate at position k
TagAt(k) ==
  IF k <= Len(result.parent.children) THEN "Subtask"
  ELSE IF Candidates[k].relationType # "" THEN Candidates[k].relationType
  ELSE "Related"

\* the frontier position of the j-th child
PositionOfChild(j) == LinkedIssueOk[j].at

\* C27: the frontier lists the root's subtasks first and its related items
\* after them, deduplicated by id with the first occurrence kept; children is
\* an order-preserving subsequence of the frontier; each child carries
\* linkTypeToParent equal to the tag of its frontier entry, so a ticket linked
\* both as subtask and as related item is tagged Subtask.
C27_ChildrenFollowFrontier ==
  result.parent.id # "" =>
    /\ NoDuplicateIds(frontier)
    /\ SeqIds(frontier) = SeqIds(Candidates)
    /\ \A a, b \in 1..Len(frontier) :
         a < b => FirstAt(frontier[a].id) < FirstAt(frontier[b].id)
    /\ \A a \in 1..Len(frontier) : frontier[a].linkType = TagAt(FirstAt(frontier[a].id))
    /\ Len(result.children) <= Len(LinkedIssueOk)
    /\ \A j \in 1..Len(result.children) :
         /\ PositionOfChild(j) \in 1..Len(frontier)
         /\ result.children[j].id = frontier[PositionOfChild(j)].id
         /\ result.children[j].linkTypeToParent = frontier[PositionOfChild(j)].linkType
         /\ \A h \in 1..(j - 1) : PositionOfChild(h) < PositionOfChild(j)
         /\ result.children[j].id \in SeqIds(result.parent.children) =>
              result.children[j].linkTypeToParent = "Subtask"

\* the root links one ticket as related item and, in a later link, as subtask;
\* the crawl returned it as a child tagged Subtask
C27_Witness ==
  /\ Returned
  /\ Len(result.children) = 1
  /\ result.children[1].linkTypeToParent = "Subtask"
  /\ result.children[1].id \in SeqIds(result.parent.relatedItems)
  /\ mainIssue[1].links[1].linkType.name \notin {"Subtask", "Depend"}

\* C29: in every reachable state of the history list, including after Analyze
\* requests that complete concurrently or within the same clock millisecond,
\* no two history entries have the same id.
C29_HistoryIdsUnique == NoDuplicateIds(analysisHistory)

\* history without its entry at position index
Without(history, index) ==
  [k \in 1..(Len(history) - 1) |-> IF k < index THEN history[k] ELSE history[k + 1]]

\* C28: deleting a history entry by an id that is present removes exactly one
\* entry, the one with that id, and keeps every other entry in its relative
\* order; deleting an id that is not present reports not-found and leaves the
\* list and its file unchanged; a get of a deleted id afterwards reports
\* not-found.
C28_DeleteRemovesOneEntry ==
  /\ [][deletes' # deletes =>
          IF \E k \in 1..Len(analysisHistory) : analysisHistory[k].id = hresp'.id
          THEN /\ hresp'.status = 200
               /\ \E k \in 1..Len(analysisHistory) :
                    /\ analysisHistory[k].id = hresp'.id
                    /\ analysisHistory' = Without(analysisHistory, k)
          ELSE /\ hresp'.status = 404
               /\ analysisHistory' = analysisHistory
               /\ historyFile' = historyFile]_vars
  /\ [] (hresp.op = "get" /\ hresp.id \in deletedIds => hresp.status = 404)

\* the list or its file changes in this step
HistoryChanges == analysisHistory' # analysisHistory \/ historyFile' # historyFile

\* request r is answered in this step
Answered(r) == hpc[r] # "done" /\ hpc'[r] = "done"

\* C30: the history list changes only through a successful Analyze (exactly
\* one entry added, after the model call returned) and a successful delete:
\* Ask, history list, history get, and an Analyze that fails during the crawl
\* or the model call leave the list and its file unchanged.
C30_OnlyAnalyzeAndDeleteChangeHistory ==
  /\ [][HistoryChanges =>
          \/ \E r \in 1..MaxRequests : hpc[r] = "llm" /\ Answered(r) /\ hstatus'[r] = 200
          \/ deletes' # deletes /\ hresp'.status = 200]_vars
  /\ [][\A r \in 1..MaxRequests :
          Answered(r) =>
            IF hstatus'[r] = 200
            THEN /\ hpc[r] = "llm"
                 /\ Ns(analysisHistory') \ Ns(analysisHistory) = {serial'}
                 /\ Len(analysisHistory') <= Len(analysisHistory) + 1
                 /\ serial' = serial + 1
            ELSE ~HistoryChanges]_vars
  /\ [][(hresp' # hresp /\ hresp'.op \in {"ask", "list", "get"}) => ~HistoryChanges]_vars
  /\ [][(deletes' # deletes /\ hresp'.status # 200) => ~HistoryChanges]_vars

\* one Analyze request failed and the other added its entry, a delete request
\* removed an entry and another request was answered since: the list holds
\* the stored entries but one, and the new entry
C30_Witness ==
  /\ \E r, q \in 1..MaxRequests : hstatus[r] = 500 /\ hstatus[q] = 200
  /\ deletedIds # {}
  /\ hresp.op \in {"ask", "list", "get"}
  /\ hresp.status = 200
  /\ serial = MAX_HISTORY
  /\ Len(analysisHistory) = MAX_HISTORY - 1

====
